---------------------------- MODULE Spec2Model ----------------------------
(***************************************************************************)
(* A model of the council orchestrator (services/council) and of the       *)
(* websocket event hub (internal/websocket) of Sainaif/council.            *)
(*                                                                         *)
(* One session is modelled from the moment StartSession has inserted its   *)
(* row (status pending) and started `go executeCouncil` (AdmitSpec starts  *)
(* one step earlier, at the StartSession call).  The session task          *)
(* and its producer / voter goroutines take one step per store write or    *)
(* channel operation; CancelSession runs concurrently with them.           *)
(* `events` holds the messages Hub.Broadcast accepted for the session's    *)
(* topic, and the tables hold their rows, as multisets: what is said about  *)
(* the order of events is said of the step that publishes one.             *)
(***************************************************************************)
EXTENDS Integers, Sequences, FiniteSets, Bags, TLC

\* ----------------------------------------------------------------- bounds
MaxChunks  == 1      \* content chunks one stream delivers before it ends
MaxCancels == 1      \* CancelSession calls on the session
MaxFaults  == 1      \* store writes that fail during the run
MaxRounds  == 2      \* largest debate_rounds a request carries
MaxUpdates == 2      \* UpdateRatings calls of the two sessions
MaxRequests == 3     \* provider requests of the two users
MaxAnswer  == 2      \* words in a model's answer to a vote prompt
MaxUserVotes == 2    \* vote rows users submit for the session
MaxEvents  == 3      \* Hub.Broadcast calls in a run of the hub
BroadcastCap == 2    \* capacity of h.broadcast as modelled (256 in NewHub)
SendCap      == 2    \* capacity of client.Send as modelled (256 in HandleConnection)

\* ------------------------------------------------------ program constants
StatusPending      == "pending"
StatusResponding   == "responding"
StatusVoting       == "voting"
StatusSynthesizing == "synthesizing"
StatusCompleted    == "completed"
StatusFailed       == "failed"
StatusCancelled    == "cancelled"

ModeStandard   == "standard"
ModeDebate     == "debate"
ModeTournament == "tournament"

EventCouncilStarted     == "council.started"
EventModelResponding    == "model.responding"
EventModelResponseChunk == "model.response_chunk"
EventModelComplete      == "model.complete"
EventVotingStarted      == "voting.started"
EventVoteReceived       == "voting.received"
EventSynthesisStarted   == "synthesis.started"
EventSynthesisComplete  == "synthesis.complete"
EventCouncilCompleted   == "council.completed"
EventCouncilFailed      == "council.failed"
EventCouncilCancelled   == "council.cancelled"
EventTournamentChampion == "tournament.champion"

Modes == {ModeStandard, ModeDebate, ModeTournament}

\* The participating models of the requests the model admits: two models, and
\* three for a tournament (a bracket with a bye).
RequestModels(m) ==
    IF m = "tournament" THEN {<<"m1", "m2">>, <<"m1", "m2", "m3">>}
    ELSE {<<"m1", "m2">>}

\* A nil model id.
NoModel == "none"

\* The requests with the mystery judge enabled: three models, and the index
\* rand.Intn picks.
MysteryRequests ==
    {[question |-> "q", mode |-> ModeStandard, models |-> <<"m1", "m2", "m3">>,
      rounds |-> 0, chair |-> NoModel, mystery |-> TRUE, pick |-> i] : i \in 1..3}

\* The errors a provider stream, a provider request or the store can return.
ErrStream == "stream error"
ErrStore  == "store error"
ErrSynth  == "synthesis error"

VARIABLES
    mode,          \* session.Mode
    reqModels,     \* req.Models
    models,        \* participatingModels handed to executeCouncil
    mysteryID,     \* *session.MysteryJudgeID (NoModel: nil)
    rounds,        \* session.Config.DebateRounds
    req,           \* the StartRequest of the StartSession call
    admission,     \* that call: "called", "rejected" (error) or "accepted"
    status,        \* sessions.status of the row
    synthesis,     \* TRUE once sessions.synthesis was written
    ratingUpdates, \* number of elo.UpdateRatings calls for the session
    rows,          \* the responses table (rows of this session, a bag)
    voteRows,      \* the votes table (rows of this session, a bag)
    events,        \* messages accepted by Hub.Broadcast (a bag of <<kind, data>>)
    pc,            \* position of the session task
    round,         \* the round of the running collectResponses call
    cur,           \* the models of the running collectResponses / collectVotes call
    ppc,           \* producer goroutines of collectResponses
    content,       \* chunks each producer has appended to its content
    errors,        \* collectResponses' errors slice
    responses,     \* collectResponses' result slice (its rows, as a set)
    allResponses,  \* executeDebateMode's allResponses (its rows, as a set)
    vpc,           \* voter goroutines of collectVotes
    votes,         \* collectVotes' result slice (its votes, as a bag)
    reason,        \* the error text handed to failSession
    synthErr,      \* synthesize's store error, returned after its broadcast
    remaining,     \* executeTournamentMode's bracket
    winners,       \* executeTournamentMode's winners of the running round
    idx,           \* executeTournamentMode's loop index (1-based)
    cancelPc,      \* position of a running CancelSession call
    cancelCalls,   \* CancelSession calls started
    storeFaults,   \* store writes that failed
    hubPc,         \* position of the Hub.Run goroutine
    hClients,      \* h.clients
    hSessions,     \* h.sessions: topic -> its clients ({}: no entry)
    broadcastQ,    \* the buffered channel h.broadcast
    shutdownCh,    \* TRUE once h.shutdown is closed
    curMsg,        \* the message Run is delivering
    pending,       \* the clients Run's range loop has still to visit
    sendQ,         \* client.Send of each client
    sendClosed,    \* number of close(client.Send) calls per client
    overflowed,    \* the clients whose buffer Run found full
    cpc,           \* position of each client's HandleConnection
    pubPc,         \* position of each publisher in Hub.Broadcast
    pubMsg,        \* the message each publisher is sending
    published,     \* Hub.Broadcast calls started
    accepted,      \* the messages h.broadcast accepted, in order
    received,      \* the messages each client's writer took off Send, in order
    shutdownAt,    \* Hub.Broadcast calls started when Hub.Shutdown was called
    modelRatings,  \* the model_ratings table, in rowid order
    eloHistory,    \* the elo_history table, in rowid order
    matchups,      \* the matchups table, in rowid order
    epc,           \* position of each UpdateRatings call
    eIn,           \* its arguments: session, category, rankings
    eCur,          \* its currentRatings / gamesPlayed
    eTodo,         \* the models its transaction has still to write
    eErr,          \* TRUE when it returned an error
    txOwner,       \* the call holding the open transaction
    txSnap,        \* the tables as they were when that transaction began
    updates,       \* UpdateRatings calls started
    poolClients,   \* s.clients of the provider service: the users with a client
    lastUsedOld,   \* the users whose client's lastUsed is older than 30 minutes
    clientsMu,     \* the holder of s.clientsMu
    gpc,           \* position of each user's getOrCreateClient call
    inflight,      \* requests of each user running on its client
    lastVote,      \* the last RequestVote: labels, the model's answer, the ranking
    reqKind,       \* what each user's running request is: a stream or a vote
    requests       \* getOrCreateClient calls made

orchVars == <<mode, reqModels, models, mysteryID, rounds, req, admission, status, synthesis, ratingUpdates, rows,
              voteRows, events, pc, round, cur, ppc, content, errors,
              responses, allResponses, vpc, votes, reason, synthErr,
              remaining, winners, idx, cancelPc, cancelCalls, storeFaults>>

hubVars == <<hubPc, hClients, hSessions, broadcastQ, shutdownCh, curMsg,
             pending, sendQ, sendClosed, overflowed, cpc, pubPc, pubMsg,
             published, accepted, received, shutdownAt>>

eloVars == <<modelRatings, eloHistory, matchups, epc, eIn, eCur, eTodo, eErr, txOwner,
             txSnap, updates>>

copVars == <<poolClients, lastUsedOld, clientsMu, gpc, inflight, lastVote,
             reqKind, requests>>

vars == <<orchVars, hubVars, eloVars, copVars>>

cfgVars    == <<mode, reqModels, models, mysteryID, rounds, req, admission>>
collVars   == <<round, cur, ppc, content, errors, responses>>
voteVars   == <<vpc, votes>>
tourVars   == <<remaining, winners, idx>>
cancelVars == <<cancelPc, cancelCalls>>

\* ---------------------------------------------------------------- helpers
TerminalStatuses == {StatusCompleted, StatusFailed, StatusCancelled}
TerminalEvents   == {EventCouncilCompleted, EventCouncilFailed, EventCouncilCancelled}

LabelNames == <<"Response A", "Response B", "Response C">>

\* generateLabels: the label of the participant at index i of the call's models.
generateLabels(count) == [i \in 1..count |-> LabelNames[i]]

\* A filter that keeps the responses of every round.
filterAllRounds(rs, r) == rs

\* filterByRound
filterByRound(rs, r) == {x \in rs : x.round = r}

SeqRange(s) == {s[i] : i \in DOMAIN s}

\* The strict orderings of a set of labels.
Orderings(S) ==
    {p \in [1..Cardinality(S) -> S] : \A a \in S : \E i \in DOMAIN p : p[i] = a}

\* Hub.Broadcast as the publisher sees it while the hub drains its queue.
Broadcast(kind, arg) == events' = events (+) SetToBag({<<kind, arg>>})

\* A store write: it succeeds, or fails while the fault budget lasts.
StoreWrite(ok) ==
    /\ ok \/ storeFaults < MaxFaults
    /\ storeFaults' = IF ok THEN storeFaults ELSE storeFaults + 1

\* updateSessionStatus: an unconditional UPDATE whose error is dropped.
updateSessionStatus(s) ==
    \E ok \in BOOLEAN :
        /\ StoreWrite(ok)
        /\ status' = IF ok THEN s ELSE status

\* ------------------------------------------------------------------- Init
Topics  == {"s1", "s2"}
Clients == {"c1", "c2"}
Publishers == {"p1", "p2"}
NoMsg == <<"", 0>>

\* client.SessionID: both subscribers watch session s1.
SessionID(c) == "s1"

\* NewHub: empty tables and channels; Run is not started yet.
HubInit ==
    /\ hubPc = "new"
    /\ hClients = {}
    /\ hSessions = [t \in Topics |-> {}]
    /\ broadcastQ = <<>>
    /\ shutdownCh = FALSE
    /\ curMsg = NoMsg
    /\ pending = {}
    /\ sendQ = [c \in Clients |-> <<>>]
    /\ sendClosed = [c \in Clients |-> 0]
    /\ overflowed = {}
    /\ cpc = [c \in Clients |-> "new"]
    /\ pubPc = [p \in Publishers |-> "idle"]
    /\ pubMsg = [p \in Publishers |-> NoMsg]
    /\ published = 0
    /\ accepted = <<>>
    /\ received = [c \in Clients |-> <<>>]
    /\ shutdownAt = 0

\* A nil category id (the global scope), and the categories of the model.
NoCat == "NULL"
Categories == {NoCat, "c1"}

\* The sessions whose tasks call UpdateRatings.
Callers == {"s1", "s2"}
NoCaller == "none"

NoInput == [session |-> NoCaller, cat |-> NoCat, rankings |-> <<>>]

EloInit ==
    /\ modelRatings = <<>>
    /\ eloHistory = <<>>
    /\ matchups = <<>>
    /\ epc = [s \in Callers |-> "idle"]
    /\ eIn = [s \in Callers |-> NoInput]
    /\ eCur = [s \in Callers |-> <<>>]
    /\ eTodo = [s \in Callers |-> {}]
    /\ eErr = [s \in Callers |-> FALSE]
    /\ txOwner = NoCaller
    /\ txSnap = <<>>
    /\ updates = 0

\* The provider service: the users with sessions, no client yet.
Users == {"u1", "u2"}
NoHolder == "none"
NoVote == [labels |-> <<>>, answer |-> <<>>, ranking |-> <<>>]

\* NewService: an empty pool.
CopInit ==
    /\ poolClients = {}
    /\ lastUsedOld = {}
    /\ clientsMu = NoHolder
    /\ gpc = [u \in Users |-> "idle"]
    /\ inflight = [u \in Users |-> 0]
    /\ lastVote = NoVote
    /\ reqKind = [u \in Users |-> "none"]
    /\ requests = 0

\* StartSession's role selection.  With the mystery judge enabled and more
\* than two models, mysteryID = &participatingModels[idx] is taken first and
\* the removal append(participatingModels[:idx], participatingModels[idx+1:]...)
\* then shifts the later models down inside the same backing array, whose
\* last slot keeps its old value: the pointer reads the array after the shift.
RemoveAt(s, i) == SubSeq(s, 1, i - 1) \o SubSeq(s, i + 1, Len(s))
BackingArray(s, i) == RemoveAt(s, i) \o <<s[Len(s)]>>
HasMystery(r) == r.mystery /\ Len(r.models) > 2
ParticipatingModels(r) ==
    IF HasMystery(r) THEN RemoveAt(r.models, r.pick) ELSE r.models
MysteryJudgeID(r) ==
    IF HasMystery(r) THEN BackingArray(r.models, r.pick)[r.pick] ELSE NoModel
\* config.DebateRounds: the request's debate_rounds, 3 when it is 0.
DebateRounds(r) == IF r.rounds = 0 THEN 3 ELSE r.rounds
StartSession(reqs) ==
    \E r \in reqs :
        /\ req = r
        /\ admission = "accepted"
        /\ mode = r.mode
        /\ reqModels = r.models
        /\ models = ParticipatingModels(r)
        /\ mysteryID = MysteryJudgeID(r)
        /\ rounds = DebateRounds(r)

\* The state StartSession leaves: the row inserted with status pending and
\* executeCouncil started on context.Background(), nothing written yet.
TaskFresh ==
    /\ synthesis = FALSE
    /\ ratingUpdates = 0
    /\ rows = EmptyBag
    /\ voteRows = EmptyBag
    /\ events = EmptyBag
    /\ round = 0
    /\ cur = <<>>
    /\ ppc = <<>>
    /\ content = <<>>
    /\ errors = <<>>
    /\ responses = {}
    /\ allResponses = {}
    /\ vpc = <<>>
    /\ votes = EmptyBag
    /\ reason = ""
    /\ synthErr = FALSE
    /\ remaining = <<>>
    /\ winners = <<>>
    /\ idx = 0
    /\ cancelPc = "idle"
    /\ cancelCalls = 0
    /\ storeFaults = 0

TaskInit == status = StatusPending /\ pc = "start" /\ TaskFresh

\* The requests without a mystery judge.
Requests ==
    UNION {{[question |-> "q", mode |-> m, models |-> ms, rounds |-> dr,
             chair |-> NoModel, mystery |-> FALSE, pick |-> 1] :
              ms \in RequestModels(m),
              dr \in (IF m = ModeDebate THEN 1..MaxRounds ELSE {0})} : m \in Modes}

Init == HubInit /\ EloInit /\ CopInit /\ StartSession(Requests) /\ TaskInit

\* -------------------------------------------------------- collectResponses
\* Entry of collectResponses(ctx, session, ms, r): one goroutine per model.
StartCollect(ms, r) ==
    /\ pc' = "collect"
    /\ cur' = ms
    /\ round' = r
    /\ ppc' = [i \in 1..Len(ms) |-> "start"]
    /\ content' = [i \in 1..Len(ms) |-> 0]
    /\ errors' = <<>>
    /\ responses' = {}

\* A fail-fast join: the stage goes on when the first producer has returned.
WaitFirst == \E i \in DOMAIN ppc : ppc[i] \in {"done", "failed"}

\* wg.Wait(): every producer goroutine has returned.
WaitAll == \A i \in DOMAIN ppc : ppc[i] \in {"done", "failed"}

\* The producer broadcasts model.responding and calls StreamPrompt.
ProducerStart(i) ==
    /\ pc = "collect" /\ i \in DOMAIN ppc /\ ppc[i] = "start"
    /\ Broadcast(EventModelResponding, generateLabels(Len(cur))[i])
    /\ \E ok \in BOOLEAN :
         IF ok
         THEN /\ ppc' = [ppc EXCEPT ![i] = "stream"]
              /\ UNCHANGED errors
         ELSE /\ ppc' = [ppc EXCEPT ![i] = "failed"]
              /\ errors' = Append(errors, ErrStream)
    /\ UNCHANGED <<copVars, hubVars, eloVars, cfgVars, status, synthesis, ratingUpdates, rows,
                   voteRows, pc, round, cur, content, responses, allResponses,
                   vpc, votes, reason, synthErr, remaining, winners, idx,
                   cancelPc, cancelCalls, storeFaults>>

\* One chunk of the stream: a content delta, the final chunk, or an error.
ProducerChunk(i) ==
    /\ pc = "collect" /\ i \in DOMAIN ppc /\ ppc[i] = "stream"
    /\ \/ /\ content[i] < MaxChunks
          /\ content' = [content EXCEPT ![i] = @ + 1]
          /\ Broadcast(EventModelResponseChunk, generateLabels(Len(cur))[i])
          /\ UNCHANGED <<ppc, errors>>
       \/ /\ ppc' = [ppc EXCEPT ![i] = "closing"]
          /\ Broadcast(EventModelResponseChunk, generateLabels(Len(cur))[i])
          /\ UNCHANGED <<content, errors>>
       \/ /\ ppc' = [ppc EXCEPT ![i] = "failed"]
          /\ errors' = Append(errors, ErrStream)
          /\ UNCHANGED <<content, events>>
    /\ UNCHANGED <<copVars, hubVars, eloVars, cfgVars, status, synthesis, ratingUpdates, rows,
                   voteRows, pc, round, cur, responses, allResponses,
                   vpc, votes, reason, synthErr, remaining, winners, idx,
                   cancelPc, cancelCalls, storeFaults>>

Row(i) == [model |-> cur[i], round |-> round,
           label |-> generateLabels(Len(cur))[i], content |-> content[i]]

\* The rows of the models table: StartSession registers the requested models.
RegisteredModels == {"m1", "m2", "m3"}

\* The chunk channel is closed: insert the response row, then announce it.
\* responses.model_id references models(id) and foreign keys are enforced, so
\* the insert for a participant that is not a registered model always fails.
ProducerSave(i) ==
    /\ pc = "collect" /\ i \in DOMAIN ppc /\ ppc[i] = "closing"
    /\ \E ok \in BOOLEAN :
         /\ ok => cur[i] \in RegisteredModels
         /\ IF cur[i] \in RegisteredModels
            THEN StoreWrite(ok)
            ELSE UNCHANGED storeFaults
         /\ IF ok
            THEN /\ rows' = rows (+) SetToBag({Row(i)})
                 /\ responses' = responses \cup {Row(i)}
                 /\ Broadcast(EventModelComplete, generateLabels(Len(cur))[i])
                 /\ ppc' = [ppc EXCEPT ![i] = "done"]
                 /\ UNCHANGED errors
            ELSE /\ errors' = Append(errors, ErrStore)
                 /\ ppc' = [ppc EXCEPT ![i] = "failed"]
                 /\ UNCHANGED <<rows, responses, events>>
    /\ UNCHANGED <<copVars, hubVars, eloVars, cfgVars, status, synthesis, ratingUpdates,
                   voteRows, pc, round, cur, content, allResponses,
                   vpc, votes, reason, synthErr, remaining, winners, idx,
                   cancelPc, cancelCalls>>

\* collectResponses' result: (responses, errors[0]) when any producer failed.
CollectFailed == Len(errors) > 0


\* ------------------------------------------------------------ collectVotes
\* Entry of collectVotes(ctx, session, rs, ms): one goroutine per voter.
VotingModels(ms) == IF mysteryID # NoModel THEN Append(ms, mysteryID) ELSE ms

StartVotes(ms) ==
    /\ pc' = "votes"
    /\ cur' = VotingModels(ms)
    /\ vpc' = [i \in 1..Len(VotingModels(ms)) |-> "start"]
    /\ votes' = EmptyBag

\* The weight of a model's vote.
Weight(mID) == IF mysteryID # NoModel /\ mysteryID = mID THEN "1.5" ELSE "1.0"

ResponseLabels(rs) == {x.label : x \in rs}

\* One voter goroutine: RequestVote (an error ends it silently; otherwise the
\* ranking lists the labels of the anonymized map in map order), the insert
\* of the vote row (an error ends it silently), the voting.received event.
Voter(i) ==
    /\ pc = "votes" /\ i \in DOMAIN vpc /\ vpc[i] = "start"
    /\ vpc' = [vpc EXCEPT ![i] = "done"]
    /\ \/ UNCHANGED <<voteRows, votes, events, storeFaults>>
       \/ /\ storeFaults < MaxFaults
          /\ storeFaults' = storeFaults + 1
          /\ UNCHANGED <<voteRows, votes, events>>
       \/ \E ranking \in Orderings(ResponseLabels(responses)) :
            LET v == [voter |-> cur[i], type |-> "model", ranked |-> ranking,
                      weight |-> Weight(cur[i])]
            IN  /\ voteRows' = voteRows (+) SetToBag({v})
                /\ votes' = votes (+) SetToBag({v})
                /\ Broadcast(EventVoteReceived, cur[i])
                /\ UNCHANGED storeFaults
    /\ UNCHANGED <<copVars, hubVars, eloVars, cfgVars, status, synthesis, ratingUpdates, rows, pc, round,
                   cur, ppc, content, errors, responses, allResponses, reason,
                   synthErr, tourVars, cancelVars>>

VotesDone == \A i \in DOMAIN vpc : vpc[i] = "done"

\* ---------------------------------------------------------- SubmitUserVote
\* The rankings a vote request carries: CouncilHandler.Vote only rejects the
\* empty one.
UserRankings ==
    {<<"Response A", "Response B">>, <<"Response A", "Response A">>,
     <<"Response Z">>}

UserRows == {v \in BagToSet(voteRows) : v.type = "user"}
UserVoteCount ==
    LET RECURSIVE Sum(_)
        Sum(S) == IF S = {} THEN 0
                  ELSE LET v == CHOOSE x \in S : TRUE
                       IN  CopiesIn(v, voteRows) + Sum(S \ {v})
    IN  Sum(UserRows)

\* SubmitUserVote: an unconditional INSERT with weight 0.5, at any time.
SubmitUserVote(u, ranking) ==
    /\ UserVoteCount < MaxUserVotes
    /\ \E ok \in BOOLEAN :
         /\ StoreWrite(ok)
         /\ voteRows' = IF ok
                        THEN voteRows (+) SetToBag({[voter |-> u, type |-> "user",
                                                    ranked |-> ranking,
                                                    weight |-> "0.5"]})
                        ELSE voteRows
    /\ UNCHANGED <<copVars, hubVars, eloVars, cfgVars, status, synthesis, ratingUpdates, rows,
                   events, pc, collVars, allResponses, voteVars, reason,
                   synthErr, tourVars, cancelVars>>

\* ------------------------------------------------------- elo.UpdateRatings
InitialRating == 1500
KFactorNew    == 25
KFactorNormal == 15
KFactorPro    == 10

\* ExpectedScore, in millionths: 1 / (1 + 10^((ratingB - ratingA) / 400)),
\* tabulated for ratingA - ratingB = 0..100 and mirrored below zero.
Million == 1000000
ExpectedTable ==
    <<500000, 501439, 502878, 504317, 505756, 507195, 508634, 510072,
      511511, 512949, 514387, 515825, 517263, 518700, 520137, 521573,
      523010, 524445, 525881, 527316, 528751, 530185, 531618, 533051,
      534484, 535916, 537347, 538778, 540208, 541638, 543066, 544495,
      545922, 547349, 548774, 550199, 551624, 553047, 554469, 555891,
      557312, 558731, 560150, 561568, 562985, 564400, 565815, 567229,
      568641, 570053, 571463, 572872, 574280, 575687, 577092, 578497,
      579900, 581301, 582702, 584101, 585499, 586895, 588290, 589684,
      591076, 592466, 593855, 595243, 596629, 598014, 599397, 600778,
      602158, 603536, 604913, 606288, 607661, 609033, 610402, 611771,
      613137, 614501, 615864, 617225, 618584, 619941, 621297, 622650,
      624002, 625351, 626699, 628045, 629389, 630730, 632070, 633408,
      634743, 636077, 637408, 638738, 640065>>
ExpectedScore(ratingA, ratingB) ==
    IF ratingA >= ratingB
    THEN ExpectedTable[ratingA - ratingB + 1]
    ELSE Million - ExpectedTable[ratingB - ratingA + 1]

GetKFactor(gamesPlayed, rating) ==
    IF gamesPlayed < 30 THEN KFactorNew
    ELSE IF rating > 2000 THEN KFactorPro
    ELSE KFactorNormal

\* math.Round on millionths: to the nearest integer, halves away from zero.
Round(x) ==
    IF x >= 0 THEN (x + (Million \div 2)) \div Million
    ELSE -((-x + (Million \div 2)) \div Million)

\* The models of the rankings, and pairResults: the key b exists under a when
\* some ranking holds both; its value counts the rankings with a before b.
RankedModels(rk) == UNION {SeqRange(rk[v]) : v \in DOMAIN rk}
RankedBefore(r, a, b) ==
    \E i \in DOMAIN r : \E j \in DOMAIN r : i < j /\ r[i] = a /\ r[j] = b
Opponents(rk, a) ==
    {b \in RankedModels(rk) \ {a} :
        \E v \in DOMAIN rk : {a, b} \subseteq SeqRange(rk[v])}
PairResult(rk, a, b) == Cardinality({v \in DOMAIN rk : RankedBefore(rk[v], a, b)})
\* score / numVoters, in millionths.
AvgScore(rk, a, b) == (PairResult(rk, a, b) * Million) \div Cardinality(DOMAIN rk)

\* newRatings[a], in millionths: the current rating plus, for each pair a is
\* in, K * (score - expected).
RECURSIVE SumAdjust(_, _, _, _)
SumAdjust(rk, current, a, todo) ==
    IF todo = {} THEN 0
    ELSE LET b == CHOOSE x \in todo : TRUE
         IN  GetKFactor(current[a].games, current[a].rating)
               * (AvgScore(rk, a, b) - ExpectedScore(current[a].rating, current[b].rating))
             + SumAdjust(rk, current, a, todo \ {b})
NewRating(rk, current, a) ==
    Round(current[a].rating * Million + SumAdjust(rk, current, a, Opponents(rk, a)))

\* The win / loss / draw counts of a in this update.
Wins(rk, a)   == Cardinality({b \in Opponents(rk, a) : 10 * AvgScore(rk, a, b) > 6 * Million})
Losses(rk, a) == Cardinality({b \in Opponents(rk, a) : 10 * AvgScore(rk, a, b) < 4 * Million})
Draws(rk, a)  == Cardinality(Opponents(rk, a)) - Wins(rk, a) - Losses(rk, a)

\* The rows of model_ratings a (model_id, category_id) lookup matches.
Matching(tbl, m, cat) == {i \in DOMAIN tbl : tbl[i].model = m /\ tbl[i].cat = cat}

\* getModelRating: the defaults when no row matches, else the row QueryRow
\* returns (any matching row: the query has no ORDER BY).
getModelRating(tbl, m, cat) ==
    IF Matching(tbl, m, cat) = {}
    THEN {[rating |-> InitialRating, games |-> 0]}
    ELSE {[rating |-> tbl[i].rating,
           games |-> tbl[i].wins + tbl[i].losses + tbl[i].draws] :
             i \in Matching(tbl, m, cat)}

\* updateModelRating: INSERT ... ON CONFLICT(model_id, category_id) DO UPDATE.
\* The conflict is one of UNIQUE(model_id, category_id), under which SQLite
\* holds NULLs distinct: with a nil category every call inserts a row.
updateModelRating(tbl, m, cat, rating, wins, losses, draws) ==
    IF cat # NoCat /\ Matching(tbl, m, cat) # {}
    THEN LET i == CHOOSE k \in Matching(tbl, m, cat) : TRUE
         IN  [tbl EXCEPT ![i] = [@ EXCEPT !.rating = rating,
                                          !.wins = @ + wins,
                                          !.losses = @ + losses,
                                          !.draws = @ + draws]]
    ELSE Append(tbl, [model |-> m, cat |-> cat, rating |-> rating,
                      wins |-> wins, losses |-> losses, draws |-> draws])

\* recordHistory
recordHistory(hist, m, cat, session, old, new) ==
    Append(hist, [model |-> m, cat |-> cat, session |-> session,
                  old |-> old, new |-> new])

\* A WithTx that returns fn's error without calling tx.Rollback.
RollbackMissing(snap) == <<modelRatings, eloHistory>>

\* WithTx's Rollback: the tables are again what they were at Begin.
Rollback(snap) == snap

\* The whole of a successful UpdateRatings call applied to the tables at
\* once: the reads, the new ratings, the writes.
RECURSIVE WriteAll(_, _, _, _)
WriteAll(tables, in, current, todo) ==
    IF todo = {} THEN tables
    ELSE LET m   == CHOOSE x \in todo : TRUE
             new == NewRating(in.rankings, current, m)
         IN  WriteAll(<<updateModelRating(tables[1], m, in.cat, new,
                            Wins(in.rankings, m), Losses(in.rankings, m),
                            Draws(in.rankings, m)),
                        recordHistory(tables[2], m, in.cat, in.session,
                            current[m].rating, new)>>,
                      in, current, todo \ {m})
ApplyUpdate(tables, in) ==
    LET ms == RankedModels(in.rankings)
        current == [m \in ms |->
                      CHOOSE r \in getModelRating(tables[1], m, in.cat) : TRUE]
    IN  WriteAll(tables, in, current, ms)

\* UpdateRatings is entered by the task of session s.
EloCall(s, cat, rk) ==
    /\ epc[s] \in {"idle", "returned"}
    /\ epc' = [epc EXCEPT ![s] = "read"]
    /\ eIn' = [eIn EXCEPT ![s] = [session |-> s, cat |-> cat, rankings |-> rk]]
    /\ eCur' = [eCur EXCEPT ![s] = <<>>]
    /\ eTodo' = [eTodo EXCEPT ![s] = {}]
    /\ eErr' = [eErr EXCEPT ![s] = FALSE]
    /\ updates' = updates + 1
    /\ UNCHANGED <<modelRatings, eloHistory, matchups, txOwner, txSnap>>

\* The orchestrator variables an UpdateRatings call leaves alone.
taskVars == <<cfgVars, status, synthesis, ratingUpdates, rows, voteRows,
              events, pc, collVars, allResponses, voteVars, reason, synthErr,
              tourVars, cancelVars>>

\* The getModelRating loop, on the pool's single connection and outside any
\* transaction: a query error returns it; otherwise currentRatings and
\* gamesPlayed are filled.
EloRead(s) ==
    /\ epc[s] = "read" /\ txOwner = NoCaller
    /\ LET ms  == RankedModels(eIn[s].rankings)
           cat == eIn[s].cat
       IN  \E ok \in BOOLEAN :
             /\ StoreWrite(ok)
             /\ IF ok
                THEN /\ \E current \in [ms -> UNION {getModelRating(modelRatings, m, cat) : m \in ms}] :
                          /\ \A m \in ms : current[m] \in getModelRating(modelRatings, m, cat)
                          /\ eCur' = [eCur EXCEPT ![s] = current]
                     /\ epc' = [epc EXCEPT ![s] = "begin"]
                     /\ UNCHANGED eErr
                ELSE /\ epc' = [epc EXCEPT ![s] = "returned"]
                     /\ eErr' = [eErr EXCEPT ![s] = TRUE]
                     /\ UNCHANGED eCur
    /\ UNCHANGED <<copVars, hubVars, taskVars, matchups, modelRatings, eloHistory, eIn, eTodo,
                   txOwner, txSnap, updates>>

\* WithTx: db.Begin takes the connection.
EloBegin(s) ==
    /\ epc[s] = "begin" /\ txOwner = NoCaller
    /\ \E ok \in BOOLEAN :
         /\ StoreWrite(ok)
         /\ IF ok
            THEN /\ txOwner' = s
                 /\ txSnap' = <<modelRatings, eloHistory>>
                 /\ eTodo' = [eTodo EXCEPT ![s] = RankedModels(eIn[s].rankings)]
                 /\ epc' = [epc EXCEPT ![s] = "tx"]
                 /\ UNCHANGED eErr
            ELSE /\ epc' = [epc EXCEPT ![s] = "returned"]
                 /\ eErr' = [eErr EXCEPT ![s] = TRUE]
                 /\ UNCHANGED <<txOwner, txSnap, eTodo>>
    /\ UNCHANGED <<copVars, hubVars, taskVars, matchups, modelRatings, eloHistory, eIn, eCur,
                   updates>>

\* The transaction fails: Rollback, and UpdateRatings returns the error.
EloFail(s) ==
    /\ modelRatings' = Rollback(txSnap)[1]
    /\ eloHistory' = Rollback(txSnap)[2]
    /\ txOwner' = NoCaller
    /\ txSnap' = <<>>
    /\ epc' = [epc EXCEPT ![s] = "returned"]
    /\ eErr' = [eErr EXCEPT ![s] = TRUE]

\* One step of the function WithTx runs, in map order over the models:
\* updateModelRating (model_ratings.model_id references models(id), so it
\* fails for an id that is no registered model) and recordHistory; an error
\* of either rolls back; after the last model, Commit.
EloWrite(s) ==
    /\ epc[s] = "tx" /\ txOwner = s
    /\ LET rk  == eIn[s].rankings
           cat == eIn[s].cat
           current == eCur[s]
       IN  IF eTodo[s] = {}
           THEN \E ok \in BOOLEAN :
                  /\ StoreWrite(ok)
                  /\ IF ok
                     THEN /\ txOwner' = NoCaller
                          /\ txSnap' = <<>>
                          /\ epc' = [epc EXCEPT ![s] = "returned"]
                          /\ UNCHANGED <<modelRatings, eloHistory, eErr>>
                     ELSE EloFail(s)
                  /\ UNCHANGED eTodo
           ELSE \E m \in eTodo[s] :
                  LET new == NewRating(rk, current, m)
                      written == updateModelRating(modelRatings, m, cat, new,
                                     Wins(rk, m), Losses(rk, m), Draws(rk, m))
                  IN  /\ eTodo' = [eTodo EXCEPT ![s] = @ \ {m}]
                      /\ IF m \notin RegisteredModels
                         THEN EloFail(s) /\ UNCHANGED storeFaults
                         ELSE \/ /\ UNCHANGED storeFaults
                                 /\ modelRatings' = written
                                 /\ eloHistory' = recordHistory(eloHistory, m, cat,
                                                     eIn[s].session, current[m].rating, new)
                                 /\ UNCHANGED <<epc, eErr, txOwner, txSnap>>
                              \/ /\ storeFaults < MaxFaults
                                 /\ storeFaults' = storeFaults + 1
                                 /\ EloFail(s)
    /\ UNCHANGED <<copVars, hubVars, taskVars, matchups, eIn, eCur, updates>>

\* ---------------------------------------------------------- executeCouncil
\* executeCouncil: the status write to responding.
ExecuteCouncil ==
    /\ pc = "start"
    /\ updateSessionStatus(StatusResponding)
    /\ pc' = "bc_started"
    /\ UNCHANGED <<copVars, hubVars, eloVars, cfgVars, synthesis, ratingUpdates, rows, voteRows, events,
                   collVars, allResponses, voteVars, reason, synthErr,
                   tourVars, cancelVars>>

\* executeCouncil: council.started, then the switch on session.Mode up to the
\* first blocking call of the mode.
BroadcastStarted ==
    /\ pc = "bc_started"
    /\ Broadcast(EventCouncilStarted, mode)
    /\ \/ /\ mode = ModeStandard
          /\ StartCollect(models, 1)
          /\ UNCHANGED tourVars
       \/ /\ mode = ModeDebate
          /\ IF 1 <= rounds
             THEN StartCollect(models, 1)
             ELSE /\ pc' = "set_voting"
                  /\ UNCHANGED collVars
          /\ UNCHANGED tourVars
       \/ /\ mode = ModeTournament
          /\ remaining' = models
          /\ winners' = <<>>
          /\ idx' = 1
          /\ pc' = "t_pair"
          /\ UNCHANGED collVars
    /\ UNCHANGED <<copVars, hubVars, eloVars, cfgVars, status, synthesis, ratingUpdates, rows, voteRows,
                   allResponses, voteVars, reason, synthErr, cancelVars,
                   storeFaults>>

\* ----------------------------------------------------- executeStandardMode
\* collectResponses returned: any error fails the session.
StandardCollected ==
    /\ pc = "collect" /\ mode = ModeStandard /\ WaitAll
    /\ IF CollectFailed
       THEN /\ reason' = errors[1]
            /\ pc' = "fail"
       ELSE /\ pc' = "set_voting"
            /\ UNCHANGED reason
    /\ UNCHANGED <<copVars, hubVars, eloVars, cfgVars, status, synthesis, ratingUpdates, rows, voteRows,
                   events, collVars, allResponses, voteVars, synthErr,
                   tourVars, cancelVars, storeFaults>>

\* ------------------------------------------------------- executeDebateMode
\* One round's collectResponses returned: fail, next round, or go to voting
\* on the responses of the final round.
DebateCollected ==
    /\ pc = "collect" /\ mode = ModeDebate /\ WaitAll
    /\ IF CollectFailed
       THEN /\ reason' = errors[1]
            /\ pc' = "fail"
            /\ UNCHANGED <<collVars, allResponses>>
       ELSE /\ allResponses' = allResponses \cup responses
            /\ UNCHANGED reason
            /\ IF round + 1 <= rounds
               THEN StartCollect(models, round + 1)
               ELSE /\ pc' = "set_voting"
                    /\ UNCHANGED collVars
    /\ UNCHANGED <<copVars, hubVars, eloVars, cfgVars, status, synthesis, ratingUpdates, rows, voteRows,
                   events, voteVars, synthErr, tourVars, cancelVars,
                   storeFaults>>

\* The status write to voting.  Debate mode publishes no voting.started and
\* goes straight into collectVotes on filterByRound(allResponses, rounds).
SetVoting ==
    /\ pc = "set_voting"
    /\ updateSessionStatus(StatusVoting)
    /\ IF mode = ModeStandard
       THEN /\ pc' = "bc_voting"
            /\ UNCHANGED <<collVars, voteVars>>
       ELSE /\ StartVotes(models)
            /\ responses' = filterByRound(allResponses, rounds)
            /\ UNCHANGED <<round, ppc, content, errors>>
    /\ UNCHANGED <<copVars, hubVars, eloVars, cfgVars, synthesis, ratingUpdates, rows, voteRows, events,
                   allResponses, reason, synthErr, tourVars, cancelVars>>

\* Standard mode: voting.started, then collectVotes.
BroadcastVoting ==
    /\ pc = "bc_voting"
    /\ Broadcast(EventVotingStarted, "")
    /\ StartVotes(models)
    /\ UNCHANGED <<copVars, hubVars, eloVars, cfgVars, status, synthesis, ratingUpdates, rows, voteRows,
                   round, ppc, content, errors, responses, allResponses,
                   reason, synthErr, tourVars, cancelVars, storeFaults>>

\* collectVotes returned (its error is always nil).
VotesCollected ==
    /\ pc = "votes" /\ mode # ModeTournament /\ VotesDone
    /\ pc' = "set_synth"
    /\ UNCHANGED <<copVars, hubVars, eloVars, cfgVars, status, synthesis, ratingUpdates, rows, voteRows,
                   events, collVars, allResponses, voteVars, reason, synthErr,
                   tourVars, cancelVars, storeFaults>>

\* The status write to synthesizing.
SetSynthesizing ==
    /\ pc = "set_synth"
    /\ updateSessionStatus(StatusSynthesizing)
    /\ pc' = IF mode = ModeStandard THEN "bc_synth" ELSE "synthesize"
    /\ UNCHANGED <<copVars, hubVars, eloVars, cfgVars, synthesis, ratingUpdates, rows, voteRows, events,
                   collVars, allResponses, voteVars, reason, synthErr,
                   tourVars, cancelVars>>

\* Standard mode: synthesis.started.
BroadcastSynthesisStarted ==
    /\ pc = "bc_synth"
    /\ Broadcast(EventSynthesisStarted, "")
    /\ pc' = "synthesize"
    /\ UNCHANGED <<copVars, hubVars, eloVars, cfgVars, status, synthesis, ratingUpdates, rows, voteRows,
                   collVars, allResponses, voteVars, reason, synthErr,
                   tourVars, cancelVars, storeFaults>>

\* -------------------------------------------------------------- synthesize
\* StartSession's chairperson: the request's override, else the first
\* participating model.
SelectChairperson(r, ms) ==
    IF r.chair # NoModel THEN r.chair
    ELSE IF Len(ms) > 0 THEN ms[1] ELSE NoModel
ChairpersonID == SelectChairperson(req, models)

\* synthesize up to its store write: no chairperson or a RequestSynthesis
\* error returns at once; otherwise the UPDATE of synthesis runs and its
\* error is kept until after the broadcast.
Synthesize ==
    /\ pc = "synthesize"
    /\ IF ChairpersonID = NoModel
       THEN /\ reason' = "no chairperson assigned"
            /\ pc' = "fail"
            /\ UNCHANGED <<synthesis, synthErr, storeFaults>>
       ELSE \/ /\ reason' = ErrSynth
               /\ pc' = "fail"
               /\ UNCHANGED <<synthesis, synthErr, storeFaults>>
            \/ \E ok \in BOOLEAN :
                 /\ StoreWrite(ok)
                 /\ synthesis' = (synthesis \/ ok)
                 /\ synthErr' = ~ok
                 /\ pc' = "bc_synth_complete"
                 /\ UNCHANGED reason
    /\ UNCHANGED <<copVars, hubVars, eloVars, cfgVars, status, ratingUpdates, rows, voteRows, events,
                   collVars, allResponses, voteVars, tourVars, cancelVars>>

\* synthesize's broadcast of synthesis.complete and its return to the mode:
\* the store error fails the session, success goes on to the rating update
\* (standard) or to completeSession (debate).
BroadcastSynthesisComplete ==
    /\ pc = "bc_synth_complete"
    /\ Broadcast(EventSynthesisComplete, "")
    /\ IF synthErr
       THEN /\ reason' = ErrStore
            /\ pc' = "fail"
       ELSE /\ pc' = IF mode = ModeStandard THEN "ratings" ELSE "complete"
            /\ UNCHANGED reason
    /\ UNCHANGED <<copVars, hubVars, eloVars, cfgVars, status, synthesis, ratingUpdates, rows, voteRows,
                   collVars, allResponses, voteVars, synthErr, tourVars,
                   cancelVars, storeFaults>>

\* Standard mode: rankings[vote.VoterID] = vote.RankedResponses over the votes
\* collectVotes returned (a later vote of the same voter replaces an earlier
\* one): the ballots as they are, lists of labels.
Rankings(vs) ==
    {rk \in [{v.voter : v \in BagToSet(vs)} -> {v.ranked : v \in BagToSet(vs)}] :
        \A id \in DOMAIN rk :
            \E v \in BagToSet(vs) : v.voter = id /\ v.ranked = rk[id]}

\* session.CategoryID of the sessions modelled: none.
CategoryID == NoCat

\* Standard mode: elo.UpdateRatings(session.ID, session.CategoryID, rankings)
\* is called ...
UpdateRatings ==
    /\ pc = "ratings"
    /\ ratingUpdates' = ratingUpdates + 1
    /\ \E rk \in Rankings(votes) : EloCall("s1", CategoryID, rk)
    /\ pc' = "ratings_wait"
    /\ UNCHANGED <<copVars, hubVars, cfgVars, status, synthesis, rows, voteRows, events,
                   collVars, allResponses, voteVars, reason, synthErr,
                   tourVars, cancelVars, storeFaults>>

\* ... and its result and error are dropped.
UpdateRatingsReturn ==
    /\ pc = "ratings_wait" /\ epc["s1"] = "returned"
    /\ epc' = [epc EXCEPT !["s1"] = "idle"]
    /\ pc' = "complete"
    /\ UNCHANGED <<copVars, hubVars, cfgVars, status, synthesis, ratingUpdates, rows,
                   voteRows, events, collVars, allResponses, voteVars, reason,
                   synthErr, tourVars, cancelVars, storeFaults, matchups, modelRatings,
                   eloHistory, eIn, eCur, eTodo, eErr, txOwner, txSnap, updates>>

\* ------------------------------------------- completeSession / failSession
CompleteSessionWrite ==
    /\ pc = "complete"
    /\ updateSessionStatus(StatusCompleted)
    /\ pc' = "bc_completed"
    /\ UNCHANGED <<copVars, hubVars, eloVars, cfgVars, synthesis, ratingUpdates, rows, voteRows, events,
                   collVars, allResponses, voteVars, reason, synthErr,
                   tourVars, cancelVars>>

CompleteSessionBroadcast ==
    /\ pc = "bc_completed"
    /\ Broadcast(EventCouncilCompleted, "")
    /\ pc' = "done"
    /\ UNCHANGED <<copVars, hubVars, eloVars, cfgVars, status, synthesis, ratingUpdates, rows, voteRows,
                   collVars, allResponses, voteVars, reason, synthErr,
                   tourVars, cancelVars, storeFaults>>

FailSessionWrite ==
    /\ pc = "fail"
    /\ updateSessionStatus(StatusFailed)
    /\ pc' = "bc_failed"
    /\ UNCHANGED <<copVars, hubVars, eloVars, cfgVars, synthesis, ratingUpdates, rows, voteRows, events,
                   collVars, allResponses, voteVars, reason, synthErr,
                   tourVars, cancelVars>>

\* The reason failSession publishes with council.failed.
FailReason == reason

FailSessionBroadcast ==
    /\ pc = "bc_failed"
    /\ Broadcast(EventCouncilFailed, FailReason)
    /\ pc' = "done"
    /\ UNCHANGED <<copVars, hubVars, eloVars, cfgVars, status, synthesis, ratingUpdates, rows, voteRows,
                   collVars, allResponses, voteVars, reason, synthErr,
                   tourVars, cancelVars, storeFaults>>

\* --------------------------------------------------- executeTournamentMode
\* determineWinner: Borda scores by label over the ballots; the winner is a
\* label of maximal positive score (map iteration order picks among ties),
\* or "" when there is no ballot.
Position(r, label) == CHOOSE i \in DOMAIN r : r[i] = label

RECURSIVE SumScores(_, _, _)
SumScores(vs, todo, label) ==
    IF todo = {} THEN 0
    ELSE LET v == CHOOSE x \in todo : TRUE
             r == v.ranked
             here == IF label \in SeqRange(r)
                     THEN Len(r) - (Position(r, label) - 1)
                     ELSE 0
         IN  CopiesIn(v, vs) * here + SumScores(vs, todo \ {v}, label)

BordaScore(vs, label) == SumScores(vs, BagToSet(vs), label)

VotedLabels(vs) == UNION {SeqRange(v.ranked) : v \in BagToSet(vs)}

determineWinner(vs) ==
    IF VotedLabels(vs) = {}
    THEN {""}
    ELSE {l \in VotedLabels(vs) :
            \A k \in VotedLabels(vs) : BordaScore(vs, k) <= BordaScore(vs, l)}

\* The bracket loops between two blocking calls: close a round, give a bye,
\* or start the next match's collectResponses.
TournamentStep ==
    /\ pc = "t_pair"
    /\ \/ /\ Len(remaining) <= 1
          /\ pc' = "t_champion"
          /\ UNCHANGED <<collVars, tourVars>>
       \/ /\ Len(remaining) > 1 /\ idx > Len(remaining)
          /\ remaining' = winners
          /\ winners' = <<>>
          /\ idx' = 1
          /\ UNCHANGED <<pc, collVars>>
       \/ /\ Len(remaining) > 1 /\ idx = Len(remaining)
          /\ winners' = Append(winners, remaining[idx])
          /\ idx' = idx + 2
          /\ UNCHANGED <<pc, collVars, remaining>>
       \/ /\ Len(remaining) > 1 /\ idx < Len(remaining)
          /\ StartCollect(<<remaining[idx], remaining[idx + 1]>>, 1)
          /\ UNCHANGED tourVars
    /\ UNCHANGED <<copVars, hubVars, eloVars, cfgVars, status, synthesis, ratingUpdates, rows, voteRows,
                   events, allResponses, voteVars, reason, synthErr,
                   cancelVars, storeFaults>>

\* A match's collectResponses returned: an error skips the match.
TournamentCollected ==
    /\ pc = "collect" /\ mode = ModeTournament /\ WaitAll
    /\ IF CollectFailed
       THEN /\ idx' = idx + 2
            /\ pc' = "t_pair"
            /\ UNCHANGED <<cur, voteVars>>
       ELSE /\ StartVotes(cur)
            /\ UNCHANGED idx
    /\ UNCHANGED <<copVars, hubVars, eloVars, cfgVars, status, synthesis, ratingUpdates, rows, voteRows,
                   events, round, ppc, content, errors, responses,
                   allResponses, reason, synthErr, remaining, winners,
                   cancelVars, storeFaults>>

\* A match's collectVotes returned: determineWinner's label joins winners.
TournamentVoted ==
    /\ pc = "votes" /\ mode = ModeTournament /\ VotesDone
    /\ \E w \in determineWinner(votes) : winners' = Append(winners, w)
    /\ idx' = idx + 2
    /\ pc' = "t_pair"
    /\ UNCHANGED <<copVars, hubVars, eloVars, cfgVars, status, synthesis, ratingUpdates, rows, voteRows,
                   events, collVars, allResponses, voteVars, reason, synthErr,
                   remaining, cancelVars, storeFaults>>

\* After the bracket: tournament.champion when one entry is left, then
\* completeSession.
TournamentChampion ==
    /\ pc = "t_champion"
    /\ IF Len(remaining) = 1
       THEN Broadcast(EventTournamentChampion, remaining[1])
       ELSE UNCHANGED events
    /\ pc' = "complete"
    /\ UNCHANGED <<copVars, hubVars, eloVars, cfgVars, status, synthesis, ratingUpdates, rows, voteRows,
                   collVars, allResponses, voteVars, reason, synthErr,
                   tourVars, cancelVars, storeFaults>>

\* ----------------------------------------------------------- CancelSession
\* CancelSession: the unconditional UPDATE to cancelled ...
CancelSessionWrite ==
    /\ cancelPc = "idle" /\ cancelCalls < MaxCancels
    /\ updateSessionStatus(StatusCancelled)
    /\ cancelPc' = "publish"
    /\ cancelCalls' = cancelCalls + 1
    /\ UNCHANGED <<copVars, hubVars, eloVars, cfgVars, synthesis, ratingUpdates, rows, voteRows, events,
                   pc, collVars, allResponses, voteVars, reason, synthErr,
                   tourVars>>

\* ... and the broadcast of council.cancelled, whatever the UPDATE returned.
CancelSessionBroadcast ==
    /\ cancelPc = "publish"
    /\ Broadcast(EventCouncilCancelled, "")
    /\ cancelPc' = "idle"
    /\ UNCHANGED <<copVars, hubVars, eloVars, cfgVars, status, synthesis, ratingUpdates, rows, voteRows,
                   pc, collVars, allResponses, voteVars, reason, synthErr,
                   tourVars, cancelCalls, storeFaults>>

\* ------------------------------------------------------------------- Next
Participants == 1..3

Next ==
    \/ ExecuteCouncil
    \/ BroadcastStarted
    \/ \E i \in Participants : ProducerStart(i)
    \/ \E i \in Participants : ProducerChunk(i)
    \/ \E i \in Participants : ProducerSave(i)
    \/ StandardCollected
    \/ DebateCollected
    \/ SetVoting
    \/ BroadcastVoting
    \/ \E i \in Participants : Voter(i)
    \/ VotesCollected
    \/ SetSynthesizing
    \/ BroadcastSynthesisStarted
    \/ Synthesize
    \/ BroadcastSynthesisComplete
    \/ UpdateRatings
    \/ \E s \in Callers : EloRead(s)
    \/ \E s \in Callers : EloBegin(s)
    \/ \E s \in Callers : EloWrite(s)
    \/ UpdateRatingsReturn
    \/ CompleteSessionWrite
    \/ CompleteSessionBroadcast
    \/ FailSessionWrite
    \/ FailSessionBroadcast
    \/ TournamentStep
    \/ TournamentCollected
    \/ TournamentVoted
    \/ TournamentChampion
    \/ CancelSessionWrite
    \/ CancelSessionBroadcast

Spec == Init /\ [][Next]_vars

\* A standard session with the mystery judge enabled, and its user's votes.
VoteInit == HubInit /\ EloInit /\ CopInit /\ StartSession(MysteryRequests) /\ TaskInit

VoteNext ==
    \/ ExecuteCouncil
    \/ BroadcastStarted
    \/ \E i \in Participants : ProducerStart(i)
    \/ \E i \in Participants : ProducerChunk(i)
    \/ \E i \in Participants : ProducerSave(i)
    \/ StandardCollected
    \/ SetVoting
    \/ BroadcastVoting
    \/ \E i \in Participants : Voter(i)
    \/ VotesCollected
    \/ SetSynthesizing
    \/ BroadcastSynthesisStarted
    \/ Synthesize
    \/ BroadcastSynthesisComplete
    \/ UpdateRatings
    \/ \E s \in Callers : EloRead(s)
    \/ \E s \in Callers : EloBegin(s)
    \/ \E s \in Callers : EloWrite(s)
    \/ UpdateRatingsReturn
    \/ CompleteSessionWrite
    \/ CompleteSessionBroadcast
    \/ FailSessionWrite
    \/ FailSessionBroadcast
    \/ \E r \in UserRankings : SubmitUserVote("u1", r)

VoteSpec == VoteInit /\ [][VoteNext]_vars

\* A standard session of three models without special roles.
RateRequests ==
    {[question |-> "q", mode |-> ModeStandard, models |-> <<"m1", "m2", "m3">>,
      rounds |-> 0, chair |-> NoModel, mystery |-> FALSE, pick |-> 1]}

RateInit == HubInit /\ EloInit /\ CopInit /\ StartSession(RateRequests) /\ TaskInit

RateNext ==
    \/ ExecuteCouncil
    \/ BroadcastStarted
    \/ \E i \in Participants : ProducerStart(i)
    \/ \E i \in Participants : ProducerChunk(i)
    \/ \E i \in Participants : ProducerSave(i)
    \/ StandardCollected
    \/ SetVoting
    \/ BroadcastVoting
    \/ \E i \in Participants : Voter(i)
    \/ VotesCollected
    \/ SetSynthesizing
    \/ BroadcastSynthesisStarted
    \/ Synthesize
    \/ BroadcastSynthesisComplete
    \/ UpdateRatings
    \/ \E s \in Callers : EloRead(s)
    \/ \E s \in Callers : EloBegin(s)
    \/ \E s \in Callers : EloWrite(s)
    \/ UpdateRatingsReturn
    \/ CompleteSessionWrite
    \/ CompleteSessionBroadcast
    \/ FailSessionWrite
    \/ FailSessionBroadcast

RateSpec == RateInit /\ [][RateNext]_vars

\* ------------------------------------------------- StartSession, admission
\* No session row, and no session task.
NoRow  == "no row"
NoTask == "no task"

NineModels == <<"m1", "m2", "m3", "m4", "m5", "m6", "m7", "m8", "m9">>

\* The requests a client sends, the malformed ones included: a standard
\* request of m1 and m2, and what differs from it in one or two fields.
Request(q, m, ms, dr, ch) ==
    [question |-> q, mode |-> m, models |-> ms, rounds |-> dr, chair |-> ch,
     mystery |-> FALSE, pick |-> 1]
AdmitRequests ==
    {Request(q, ModeStandard, <<"m1", "m2">>, 0, NoModel) : q \in {"q", "", " "}}
    \cup {Request("q", m, <<"m1", "m2">>, 0, NoModel) : m \in {"", "bogus"}}
    \cup {Request("q", ModeDebate, <<"m1", "m2">>, dr, NoModel) : dr \in {1, -1}}
    \cup {Request("q", ModeStandard, ms, 0, NoModel) :
            ms \in {<<"m1">>, <<"m2", "m1">>, <<"m1", "m1">>, NineModels}}
    \cup {Request("q", ModeStandard, <<"m1", "m2">>, 11, ch) : ch \in {NoModel, "m2"}}

\* validateRequest: the error it returns, "" for nil.  The default it gives
\* an empty mode is set on its own copy of the request.
validateRequest(r) ==
    IF r.question = "" THEN "question is required"
    ELSE IF Len(r.models) < 2 THEN "at least 2 models are required"
    ELSE IF Len(r.models) > 8 THEN "maximum 8 models allowed"
    ELSE IF r.mode # "" /\ r.mode \notin Modes THEN "invalid mode"
    ELSE ""

\* The constraints of the sessions table the INSERT has to meet: the CHECK on
\* mode, and the references of the role columns to models(id).
SessionInsertable(r) ==
    /\ r.mode \in Modes
    /\ SelectChairperson(r, ParticipatingModels(r)) \in RegisteredModels \cup {NoModel}
    /\ MysteryJudgeID(r) \in RegisteredModels \cup {NoModel}

\* StartSession: validation, role selection, the INSERT of the session row
\* with status pending, and `go executeCouncil`.
StartSessionRun ==
    /\ admission = "called"
    /\ IF validateRequest(req) # ""
       THEN /\ admission' = "rejected"
            /\ UNCHANGED <<mode, reqModels, models, mysteryID, rounds, status,
                           pc, storeFaults>>
       ELSE \E ok \in BOOLEAN :
              /\ ok => SessionInsertable(req)
              /\ IF SessionInsertable(req)
                 THEN StoreWrite(ok)
                 ELSE UNCHANGED storeFaults
              /\ IF ok
                 THEN /\ admission' = "accepted"
                      /\ mode' = req.mode
                      /\ reqModels' = req.models
                      /\ models' = ParticipatingModels(req)
                      /\ mysteryID' = MysteryJudgeID(req)
                      /\ rounds' = DebateRounds(req)
                      /\ status' = StatusPending
                      /\ pc' = "start"
                 ELSE /\ admission' = "rejected"
                      /\ UNCHANGED <<mode, reqModels, models, mysteryID,
                                     rounds, status, pc>>
    /\ UNCHANGED <<copVars, hubVars, eloVars, req, synthesis, ratingUpdates, rows,
                   voteRows, events, collVars, allResponses, voteVars, reason,
                   synthErr, tourVars, cancelVars>>

AdmitInit ==
    /\ HubInit /\ EloInit /\ CopInit
    /\ req \in AdmitRequests
    /\ admission = "called"
    /\ mode = "" /\ reqModels = <<>> /\ models = <<>>
    /\ mysteryID = NoModel /\ rounds = 0
    /\ status = NoRow /\ pc = NoTask
    /\ TaskFresh

AdmitNext ==
    \/ StartSessionRun
    \/ ExecuteCouncil
    \/ BroadcastStarted
    \/ \E i \in Participants : ProducerStart(i)
    \/ \E i \in Participants : ProducerChunk(i)
    \/ \E i \in Participants : ProducerSave(i)
    \/ StandardCollected
    \/ DebateCollected
    \/ SetVoting
    \/ BroadcastVoting
    \/ \E i \in Participants : Voter(i)
    \/ VotesCollected
    \/ SetSynthesizing
    \/ BroadcastSynthesisStarted
    \/ Synthesize
    \/ BroadcastSynthesisComplete
    \/ UpdateRatings
    \/ \E s \in Callers : EloRead(s)
    \/ \E s \in Callers : EloBegin(s)
    \/ \E s \in Callers : EloWrite(s)
    \/ UpdateRatingsReturn
    \/ CompleteSessionWrite
    \/ CompleteSessionBroadcast
    \/ FailSessionWrite
    \/ FailSessionBroadcast

AdmitSpec == AdmitInit /\ [][AdmitNext]_vars

\* A tournament whose provider calls do not fail: StreamPrompt and the chunk
\* channel return an error only for an id that is no model, and every voter
\* returns a ballot.
TourRequests ==
    {[question |-> "q", mode |-> ModeTournament, models |-> ms, rounds |-> 0,
      chair |-> NoModel, mystery |-> FALSE, pick |-> 1] :
        ms \in RequestModels(ModeTournament)}

TourInit == HubInit /\ EloInit /\ CopInit /\ StartSession(TourRequests) /\ TaskInit

StreamFailed(i) == ppc[i] # "failed" /\ ppc'[i] = "failed"

ProducerStartKnown(i) ==
    ProducerStart(i) /\ (StreamFailed(i) => cur[i] \notin RegisteredModels)

ProducerChunkKnown(i) ==
    ProducerChunk(i) /\ (StreamFailed(i) => cur[i] \notin RegisteredModels)

\* A voter whose RequestVote and vote insert succeed.
VoterBallot(i) == Voter(i) /\ votes' # votes

TourNext ==
    \/ ExecuteCouncil
    \/ BroadcastStarted
    \/ \E i \in Participants : ProducerStartKnown(i)
    \/ \E i \in Participants : ProducerChunkKnown(i)
    \/ \E i \in Participants : ProducerSave(i)
    \/ \E i \in Participants : VoterBallot(i)
    \/ TournamentStep
    \/ TournamentCollected
    \/ TournamentVoted
    \/ TournamentChampion
    \/ CompleteSessionWrite
    \/ CompleteSessionBroadcast

TourSpec == TourInit /\ [][TourNext]_vars

\* The rating calculator under two sessions that call UpdateRatings, each
\* with rankings over the model ids m1 and m2; the last one has a ballot
\* that ranks m1 alone.
EloRankings ==
    {[v \in {"v1"} |-> <<"m1", "m2">>],
     [v \in {"v1"} |-> <<"m2", "m1">>],
     [v \in {"v1", "v2"} |-> IF v = "v1" THEN <<"m1", "m2">> ELSE <<"m2", "m1">>],
     [v \in {"v1", "v2"} |-> IF v = "v1" THEN <<"m1", "m2">> ELSE <<"m1">>]}

EloStart(s) ==
    /\ updates < MaxUpdates
    /\ \E cat \in Categories, rk \in EloRankings : EloCall(s, cat, rk)
    /\ UNCHANGED <<copVars, hubVars, orchVars>>

EloNext ==
    \/ \E s \in Callers : EloStart(s)
    \/ \E s \in Callers : EloRead(s)
    \/ \E s \in Callers : EloBegin(s)
    \/ \E s \in Callers : EloWrite(s)

\* The calculator alone, beside one idle standard session.
EloSpecInit == Init /\ mode = ModeStandard

EloSpec == EloSpecInit /\ [][EloNext]_vars

\* ================================================================ the hub
\* `go wsHub.Run()`: the hub goroutine reaches its select.
HubRun ==
    /\ hubPc = "new"
    /\ hubPc' = "select"
    /\ UNCHANGED <<copVars, orchVars, eloVars, hClients, hSessions, broadcastQ, shutdownCh,
                   curMsg, pending, sendQ, sendClosed, overflowed, cpc, pubPc,
                   pubMsg, published>>
    /\ UNCHANGED <<accepted, received, shutdownAt>>

\* HandleConnection is entered: the client is about to send on h.register.
ClientConnect(c) ==
    /\ cpc[c] = "new"
    /\ cpc' = [cpc EXCEPT ![c] = "registering"]
    /\ UNCHANGED <<copVars, orchVars, eloVars, hubPc, hClients, hSessions, broadcastQ,
                   shutdownCh, curMsg, pending, sendQ, sendClosed, overflowed,
                   pubPc, pubMsg, published>>
    /\ UNCHANGED <<accepted, received, shutdownAt>>

\* Run's register case, the rendezvous with HandleConnection's send.
HubRegister(c) ==
    /\ hubPc = "select" /\ cpc[c] = "registering"
    /\ hClients' = hClients \cup {c}
    /\ hSessions' = [hSessions EXCEPT ![SessionID(c)] = @ \cup {c}]
    /\ cpc' = [cpc EXCEPT ![c] = "reading"]
    /\ UNCHANGED <<copVars, orchVars, eloVars, hubPc, broadcastQ, shutdownCh, curMsg, pending,
                   sendQ, sendClosed, overflowed, pubPc, pubMsg, published>>
    /\ UNCHANGED <<accepted, received, shutdownAt>>

\* HandleConnection's read loop ends: the deferred send on h.unregister.
ClientReadFail(c) ==
    /\ cpc[c] = "reading"
    /\ cpc' = [cpc EXCEPT ![c] = "unregistering"]
    /\ UNCHANGED <<copVars, orchVars, eloVars, hubPc, hClients, hSessions, broadcastQ,
                   shutdownCh, curMsg, pending, sendQ, sendClosed, overflowed,
                   pubPc, pubMsg, published>>
    /\ UNCHANGED <<accepted, received, shutdownAt>>

\* An unregister case that deletes the client from h.clients and closes its
\* Send but leaves it in the table of its session.
HubUnregisterKeep(c) ==
    /\ hubPc = "select" /\ cpc[c] = "unregistering"
    /\ IF c \in hClients
       THEN /\ hClients' = hClients \ {c}
            /\ sendClosed' = [sendClosed EXCEPT ![c] = @ + 1]
            /\ UNCHANGED hSessions
       ELSE UNCHANGED <<hClients, hSessions, sendClosed>>
    /\ cpc' = [cpc EXCEPT ![c] = "returned"]
    /\ UNCHANGED <<copVars, orchVars, eloVars, hubPc, broadcastQ, shutdownCh, curMsg, pending,
                   sendQ, overflowed, pubPc, pubMsg, published>>
    /\ UNCHANGED <<accepted, received, shutdownAt>>

\* Run's unregister case: a client still in the tables is removed and its
\* Send channel closed.
HubUnregister(c) ==
    /\ hubPc = "select" /\ cpc[c] = "unregistering"
    /\ IF c \in hClients
       THEN /\ hClients' = hClients \ {c}
            /\ hSessions' = [hSessions EXCEPT ![SessionID(c)] = @ \ {c}]
            /\ sendClosed' = [sendClosed EXCEPT ![c] = @ + 1]
       ELSE UNCHANGED <<hClients, hSessions, sendClosed>>
    /\ cpc' = [cpc EXCEPT ![c] = "returned"]
    /\ UNCHANGED <<copVars, orchVars, eloVars, hubPc, broadcastQ, shutdownCh, curMsg, pending,
                   sendQ, overflowed, pubPc, pubMsg, published>>
    /\ UNCHANGED <<accepted, received, shutdownAt>>

\* The writer goroutine of HandleConnection takes one message off Send.
WriterRecv(c) ==
    /\ cpc[c] \in {"reading", "unregistering", "returned"}
    /\ sendQ[c] # <<>>
    /\ sendQ' = [sendQ EXCEPT ![c] = Tail(@)]
    /\ received' = [received EXCEPT ![c] = Append(@, Head(sendQ[c]))]
    /\ UNCHANGED <<copVars, orchVars, eloVars, hubPc, hClients, hSessions, broadcastQ,
                   shutdownCh, curMsg, pending, sendClosed, overflowed, cpc,
                   pubPc, pubMsg, published>>
    /\ UNCHANGED <<accepted, shutdownAt>>

\* Hub.Broadcast is called: the publisher is about to send on h.broadcast.
\* A message is <<topic, n>>: it is the n-th message h.broadcast accepts.
BroadcastCall(p, t) ==
    /\ pubPc[p] = "idle" /\ published < MaxEvents
    /\ pubMsg' = [pubMsg EXCEPT ![p] = <<t, 0>>]
    /\ pubPc' = [pubPc EXCEPT ![p] = "sending"]
    /\ published' = published + 1
    /\ UNCHANGED <<copVars, orchVars, eloVars, hubPc, hClients, hSessions, broadcastQ,
                   shutdownCh, curMsg, pending, sendQ, sendClosed, overflowed,
                   cpc>>
    /\ UNCHANGED <<accepted, received, shutdownAt>>

\* The send on h.broadcast completes when the buffer has room.
BroadcastRoom == Len(broadcastQ) < BroadcastCap

BroadcastSend(p) ==
    /\ pubPc[p] = "sending" /\ BroadcastRoom
    /\ broadcastQ' = Append(broadcastQ, <<pubMsg[p][1], Len(accepted) + 1>>)
    /\ accepted' = Append(accepted, <<pubMsg[p][1], Len(accepted) + 1>>)
    /\ pubPc' = [pubPc EXCEPT ![p] = "idle"]
    /\ pubMsg' = [pubMsg EXCEPT ![p] = NoMsg]
    /\ UNCHANGED <<copVars, orchVars, eloVars, hubPc, hClients, hSessions, shutdownCh, curMsg,
                   pending, sendQ, sendClosed, overflowed, cpc, published>>
    /\ UNCHANGED <<received, shutdownAt>>

\* A broadcast case that hands the message to every client of the hub
\* (h.clients in place of h.sessions[message.SessionID]).
HubReceiveAll ==
    /\ hubPc = "select" /\ broadcastQ # <<>>
    /\ curMsg' = Head(broadcastQ)
    /\ broadcastQ' = Tail(broadcastQ)
    /\ pending' = hClients
    /\ hubPc' = IF pending' = {} THEN "select" ELSE "deliver"
    /\ UNCHANGED <<copVars, orchVars, eloVars, hClients, hSessions, shutdownCh, sendQ,
                   sendClosed, overflowed, cpc, pubPc, pubMsg, published>>
    /\ UNCHANGED <<accepted, received, shutdownAt>>

\* Run's broadcast case: take a message and look up the topic's clients.
HubReceive ==
    /\ hubPc = "select" /\ broadcastQ # <<>>
    /\ curMsg' = Head(broadcastQ)
    /\ broadcastQ' = Tail(broadcastQ)
    /\ pending' = hSessions[Head(broadcastQ)[1]]
    /\ hubPc' = IF pending' = {} THEN "select" ELSE "deliver"
    /\ UNCHANGED <<copVars, orchVars, eloVars, hClients, hSessions, shutdownCh, sendQ,
                   sendClosed, overflowed, cpc, pubPc, pubMsg, published>>
    /\ UNCHANGED <<accepted, received, shutdownAt>>

\* One iteration of Run's range loop, in map order: a non-blocking send on
\* the client's Send; when its buffer is full, Run sends the client on
\* h.unregister, the unbuffered channel only Run itself receives from.
HubDeliver(c) ==
    /\ hubPc = "deliver" /\ c \in pending
    /\ IF Len(sendQ[c]) < SendCap
       THEN /\ sendQ' = [sendQ EXCEPT ![c] = Append(@, curMsg)]
            /\ pending' = pending \ {c}
            /\ hubPc' = IF pending' = {} THEN "select" ELSE "deliver"
            /\ UNCHANGED overflowed
       ELSE /\ overflowed' = overflowed \cup {c}
            /\ hubPc' = "blocked"
            /\ UNCHANGED <<sendQ, pending>>
    /\ UNCHANGED <<copVars, orchVars, eloVars, hClients, hSessions, broadcastQ, shutdownCh,
                   curMsg, sendClosed, cpc, pubPc, pubMsg, published>>
    /\ UNCHANGED <<accepted, received, shutdownAt>>

\* Hub.Shutdown: close(h.shutdown).
Shutdown ==
    /\ ~shutdownCh
    /\ shutdownCh' = TRUE
    /\ shutdownAt' = published
    /\ UNCHANGED <<copVars, orchVars, eloVars, hubPc, hClients, hSessions, broadcastQ, curMsg,
                   pending, sendQ, sendClosed, overflowed, cpc, pubPc, pubMsg,
                   published>>
    /\ UNCHANGED <<accepted, received>>

\* Run's shutdown case: close every client's Send, clear the tables, return.
HubShutdown ==
    /\ hubPc = "select" /\ shutdownCh
    /\ sendClosed' = [c \in Clients |->
                        IF c \in hClients THEN sendClosed[c] + 1 ELSE sendClosed[c]]
    /\ hClients' = {}
    /\ hSessions' = [t \in Topics |-> {}]
    /\ hubPc' = "stopped"
    /\ UNCHANGED <<copVars, orchVars, eloVars, broadcastQ, shutdownCh, curMsg, pending, sendQ,
                   overflowed, cpc, pubPc, pubMsg, published>>
    /\ UNCHANGED <<accepted, received, shutdownAt>>

HubNext ==
    \/ HubRun
    \/ \E c \in Clients : ClientConnect(c)
    \/ \E c \in Clients : HubRegister(c)
    \/ \E c \in Clients : ClientReadFail(c)
    \/ \E c \in Clients : HubUnregister(c)
    \/ \E c \in Clients : WriterRecv(c)
    \/ \E p \in Publishers, t \in Topics : BroadcastCall(p, t)
    \/ \E p \in Publishers : BroadcastSend(p)
    \/ HubReceive
    \/ \E c \in Clients : HubDeliver(c)
    \/ Shutdown
    \/ HubShutdown

\* The hub alone, beside one idle standard session.
HubSpecInit == Init /\ mode = ModeStandard

HubSpec == HubSpecInit /\ [][HubNext]_vars

\* The hub with its goroutines scheduled fairly: Run, once started, takes a
\* select case that stays ready; a publisher's send completes when the
\* buffer has room; a writer goroutine drains its channel.  Connecting,
\* a failing read, publishing and Shutdown are up to the environment.
HubFairness ==
    /\ WF_vars(HubRun)
    /\ \A c \in Clients : WF_vars(HubRegister(c))
    /\ \A c \in Clients : WF_vars(HubUnregister(c))
    /\ \A c \in Clients : WF_vars(WriterRecv(c))
    /\ \A c \in Clients : WF_vars(HubDeliver(c))
    /\ \A p \in Publishers : WF_vars(BroadcastSend(p))
    /\ WF_vars(HubReceive)
    /\ WF_vars(HubShutdown)

HubLiveSpec == HubSpec /\ HubFairness

\* ===================================================== the provider pool
\* StreamPrompt or SendPrompt is called for user u: getOrCreateClient is
\* entered and waits for s.clientsMu.
GetClientCall(u, kind) ==
    /\ gpc[u] = "idle" /\ requests < MaxRequests
    /\ gpc' = [gpc EXCEPT ![u] = "lock"]
    /\ reqKind' = [reqKind EXCEPT ![u] = kind]
    /\ requests' = requests + 1
    /\ UNCHANGED <<poolClients, lastUsedOld, clientsMu, inflight, lastVote>>
    /\ UNCHANGED <<orchVars, hubVars, eloVars>>

\* getOrCreateClient takes the lock.  A pooled client has its lastUsed set
\* to now and is returned, the deferred Unlock running at once; otherwise
\* client.Start() is launched and the select waits for it, the lock held.
GetClientLock(u) ==
    /\ gpc[u] = "lock" /\ clientsMu = NoHolder
    /\ IF u \in poolClients
       THEN /\ lastUsedOld' = lastUsedOld \ {u}
            /\ gpc' = [gpc EXCEPT ![u] = "running"]
            /\ inflight' = [inflight EXCEPT ![u] = @ + 1]
            /\ UNCHANGED clientsMu
       ELSE /\ clientsMu' = u
            /\ gpc' = [gpc EXCEPT ![u] = "starting"]
            /\ UNCHANGED <<lastUsedOld, inflight>>
    /\ UNCHANGED <<poolClients, lastVote, reqKind, requests>>
    /\ UNCHANGED <<orchVars, hubVars, eloVars>>

\* The select of getOrCreateClient ends: Start returned nil and the client
\* joins the pool, or Start failed or the 30 s timer fired and the call
\* returns an error.  The deferred Unlock releases the lock.
GetClientStarted(u) ==
    /\ gpc[u] = "starting" /\ clientsMu = u
    /\ clientsMu' = NoHolder
    /\ \E ok \in BOOLEAN :
         IF ok
         THEN /\ poolClients' = poolClients \cup {u}
              /\ gpc' = [gpc EXCEPT ![u] = "running"]
              /\ inflight' = [inflight EXCEPT ![u] = @ + 1]
              /\ UNCHANGED reqKind
         ELSE /\ gpc' = [gpc EXCEPT ![u] = "idle"]
              /\ reqKind' = [reqKind EXCEPT ![u] = "none"]
              /\ UNCHANGED <<poolClients, inflight>>
    /\ UNCHANGED <<lastUsedOld, lastVote, requests>>
    /\ UNCHANGED <<orchVars, hubVars, eloVars>>

\* The goroutine of StreamPrompt ends: done, a cancelled context, shutdown
\* or an error.  Nothing bounds the time it runs.
StreamDone(u) ==
    /\ gpc[u] = "running" /\ reqKind[u] = "stream"
    /\ gpc' = [gpc EXCEPT ![u] = "idle"]
    /\ reqKind' = [reqKind EXCEPT ![u] = "none"]
    /\ inflight' = [inflight EXCEPT ![u] = @ - 1]
    /\ UNCHANGED <<poolClients, lastUsedOld, clientsMu, lastVote, requests>>
    /\ UNCHANGED <<orchVars, hubVars, eloVars>>

\* The labels of the two responses a voter is asked to rank, and the words
\* of an answer: a label, or text that is no label.
VoteLabels == SeqRange(generateLabels(2))
OtherText == "other"
Answers == UNION {[1..n -> VoteLabels \cup {OtherText}] : n \in 0..MaxAnswer}

\* parseRanking: for each valid label, in the order of validLabels, the
\* response is searched for the label and a label found is appended; the
\* labels not found follow, again in the order of validLabels.
parseRanking(response, validLabels) ==
    LET found(l) == l \in SeqRange(response)
        missing(l) == l \notin SeqRange(response)
    IN  SelectSeq(validLabels, found) \o SelectSeq(validLabels, missing)

\* RequestVote after SendPrompt returned the answer: labels is the order in
\* which the range over the responses map yielded them.
RequestVoteResult(answer, labels) ==
    IF Len(parseRanking(answer, labels)) = 0
    THEN labels
    ELSE parseRanking(answer, labels)

\* SendPrompt of a RequestVote returns: an error, or the model's answer,
\* which RequestVote parses.
VoteDone(u) ==
    /\ gpc[u] = "running" /\ reqKind[u] = "vote"
    /\ gpc' = [gpc EXCEPT ![u] = "idle"]
    /\ reqKind' = [reqKind EXCEPT ![u] = "none"]
    /\ inflight' = [inflight EXCEPT ![u] = @ - 1]
    /\ \/ UNCHANGED lastVote
       \/ \E labels \in Orderings(VoteLabels), answer \in Answers :
            lastVote' = [labels |-> labels, answer |-> answer,
                         ranking |-> RequestVoteResult(answer, labels)]
    /\ UNCHANGED <<poolClients, lastUsedOld, clientsMu, requests>>
    /\ UNCHANGED <<orchVars, hubVars, eloVars>>

\* Thirty minutes pass since user u's client was last handed out.  A vote
\* request ends within SendAndWait's two minutes; a stream has no limit.
IdleTimeout(u) ==
    /\ u \in poolClients /\ u \notin lastUsedOld
    /\ ~(gpc[u] = "running" /\ reqKind[u] = "vote")
    /\ lastUsedOld' = lastUsedOld \cup {u}
    /\ UNCHANGED <<poolClients, clientsMu, gpc, inflight, lastVote, reqKind,
                   requests>>
    /\ UNCHANGED <<orchVars, hubVars, eloVars>>

\* cleanupIdleClients, on the ticker of cleanupLoop: under the lock, every
\* client whose lastUsed is before the threshold is stopped and deleted.
cleanupIdleClients ==
    /\ clientsMu = NoHolder
    /\ lastUsedOld # {}
    /\ poolClients' = poolClients \ lastUsedOld
    /\ lastUsedOld' = {}
    /\ UNCHANGED <<clientsMu, gpc, inflight, lastVote, reqKind, requests>>
    /\ UNCHANGED <<orchVars, hubVars, eloVars>>

CopNext ==
    \/ \E u \in Users, kind \in {"stream", "vote"} : GetClientCall(u, kind)
    \/ \E u \in Users : GetClientLock(u)
    \/ \E u \in Users : GetClientStarted(u)
    \/ \E u \in Users : StreamDone(u)
    \/ \E u \in Users : VoteDone(u)
    \/ \E u \in Users : IdleTimeout(u)
    \/ cleanupIdleClients

\* The provider service alone, beside one idle standard session.
CopSpecInit == Init /\ mode = ModeStandard

CopSpec == CopSpecInit /\ [][CopNext]_vars

\* ================================================================== claims
Published(kind) == {e \in BagToSet(events) : e[1] = kind}
Count(kind) ==
    LET RECURSIVE Sum(_)
        Sum(S) == IF S = {} THEN 0
                  ELSE LET e == CHOOSE x \in S : TRUE
                       IN  CopiesIn(e, events) + Sum(S \ {e})
    IN  Sum(Published(kind))
TerminalPublished == \E k \in TerminalEvents : Published(k) # {}
TaskDone == pc = "done"

\* C1: once the stored status is completed, failed or cancelled, no later
\* operation changes it.  (The code's UPDATEs are unconditional: the claim is
\* violated.)
C1_TerminalAbsorbing ==
    [][(status \in TerminalStatuses) => (status' = status)]_vars

\* C2: once a terminal event (council.completed, council.failed or
\* council.cancelled) has been published for the session, no further event of
\* the session is published: neither a second terminal event nor any other.
\* Stated of the runs without a store fault, which the claim covers.
\* (Violated: CancelSession does not stop the session task.)
C2_EventTerminality ==
    [][(storeFaults' = 0 /\ TerminalPublished) => (events' = events)]_vars

\* C3: after a CancelSession call on a non-terminal session has returned, the
\* session task makes no further stage transition, writes no further vote or
\* synthesis and applies no rating update; stated of the runs without a store
\* fault, which the claim covers.  (Violated: the task runs on
\* context.Background() and is never told.)
CancelReturned == cancelCalls > 0 /\ cancelPc = "idle"
C3_CancelStopsTask ==
    [][(storeFaults' = 0 /\ CancelReturned) =>
         (/\ status' = status
          /\ voteRows' = voteRows
          /\ synthesis' = synthesis
          /\ ratingUpdates' = ratingUpdates)]_vars

\* C4: voting.started is published, and the status voting is stored, only
\* when every participant of the response stage has a producer that returned:
\* it published model.complete for its label, or it failed.
ParticipantTerminal(i) ==
    \/ /\ ppc[i] = "done"
       /\ BagIn(<<EventModelComplete, generateLabels(Len(cur))[i]>>, events)
    \/ ppc[i] = "failed"
AllowedTransitions ==
    {<<StatusPending, StatusResponding>>, <<StatusResponding, StatusVoting>>,
     <<StatusVoting, StatusSynthesizing>>, <<StatusSynthesizing, StatusCompleted>>}
    \cup {<<s, t>> : s \in {StatusPending, StatusResponding, StatusVoting,
                            StatusSynthesizing},
                     t \in {StatusFailed, StatusCancelled}}
C7_StatusMonotonic ==
    [][(cancelCalls' = 0 /\ storeFaults' = 0 /\ status' # status)
         => (<<status, status'>> \in AllowedTransitions)]_vars

\* C8: a standard session in which one stream failed and another completed,
\* with no cancel and no store fault, ends completed with council.completed
\* published.  (Violated: collectResponses returns errors[0] and the session
\* is failed.)
C8_PartialSurvival ==
    (/\ mode = ModeStandard /\ TaskDone
     /\ cancelCalls = 0 /\ storeFaults = 0
     /\ \E i \in DOMAIN ppc : ppc[i] = "failed"
     /\ \E i \in DOMAIN ppc : ppc[i] = "done")
    => (status = StatusCompleted /\ Published(EventCouncilCompleted) # {})

\* C9: a standard session whose task has ended after every participant's
\* stream failed has the status failed, exactly one council.failed event, with
\* a non-empty reason, no vote row, no synthesis and no rating update; stated
\* of the runs without a store fault.  (Violated in the status only: a
\* CancelSession call after failSession overwrites failed with cancelled, the
\* unconditional UPDATE of C1.)
AllStreamsFailed ==
    /\ Len(errors) = Len(models)
    /\ \A i \in DOMAIN errors : errors[i] = ErrStream
C9_AllFail ==
    (/\ mode = ModeStandard /\ TaskDone /\ AllStreamsFailed
     /\ storeFaults = 0 /\ cancelPc = "idle") =>
        /\ status = StatusFailed
        /\ Count(EventCouncilFailed) = 1
        /\ \A e \in Published(EventCouncilFailed) : e[2] # ""
        /\ voteRows = EmptyBag
        /\ ~synthesis
        /\ ratingUpdates = 0

\* C10: synthesis.complete is published only after voting.started was.
\* (Violated: debate mode never publishes voting.started.)
C10_SynthesisAfterVoting ==
    Published(EventSynthesisComplete) # {} => Published(EventVotingStarted) # {}

\* C5: a subscriber whose Send buffer the hub found full while publishing is
\* removed from the hub tables with its channel closed, and the hub goes on
\* processing (the event reaches the other subscribers, later requests are
\* served).  (Violated: Run blocks in `h.unregister <- client`.)
C5_DropSlowest ==
    /\ hubPc # "blocked"
    /\ \A c \in overflowed : c \notin hClients /\ sendClosed[c] = 1

\* C6: a publisher inside Hub.Broadcast never has to wait: whenever one is
\* about to send on h.broadcast, the buffer has room.  (Violated: the send
\* blocks on a full buffer, which nothing drains before Run starts, after
\* Shutdown, or while Run is blocked.)
C6_PublishNeverBlocks ==
    \A p \in Publishers : pubPc[p] = "sending" => Len(broadcastQ) < BroadcastCap

\* C11: what a subscriber whose buffer never overflowed has been handed (the
\* messages its writer took off Send, then those still in Send) is a run of
\* consecutive messages of the ones h.broadcast accepted for its own topic,
\* in the order of acceptance: none twice, none out of order, none of another
\* topic.
Stream(c) == received[c] \o sendQ[c]
TopicAccepted(t) == SelectSeq(accepted, LAMBDA m : m[1] = t)
IsRunOf(s, all) ==
    \E k \in 0..Len(all) :
        /\ k + Len(s) <= Len(all)
        /\ \A i \in 1..Len(s) : s[i] = all[k + i]
C11_TopicOrder ==
    \A c \in Clients \ overflowed :
        IsRunOf(Stream(c), TopicAccepted(SessionID(c)))
C11_Witness ==
    \E c \in Clients \ overflowed :
        /\ Len(Stream(c)) >= 2 /\ received[c] # <<>>
        /\ \E i \in DOMAIN accepted :
              accepted[i][1] # SessionID(c) /\ i < Stream(c)[Len(Stream(c))][2]

\* C12: once Hub.Shutdown has returned, the tables are empty, the channel of
\* every registered subscriber is closed, and no message published after the
\* call is put on a subscriber's channel.  (Violated: Shutdown only closes
\* h.shutdown; Run may serve other ready cases first, and a Run blocked in
\* `h.unregister <- client` never serves it.)
\* The n-th accepted message was published after Shutdown when n exceeds
\* the number of Broadcast calls started before it.
LateDelivery(c) ==
    /\ Len(sendQ'[c]) > Len(sendQ[c])
    /\ sendQ'[c][Len(sendQ'[c])][2] > shutdownAt
C12_ShutdownFinal ==
    [][shutdownCh =>
         (/\ hClients = {}
          /\ \A t \in Topics : hSessions[t] = {}
          /\ \A c \in Clients : cpc[c] = "reading" => sendClosed[c] >= 1
          /\ \A c \in Clients : ~LateDelivery(c))]_vars

\* C13: over the response rows of a session, model and label determine each
\* other: a model has one label in every round and match, and a label one
\* model.  (Violated: collectResponses labels by position in the models of
\* the call, and a tournament calls it with a different pair per match.)
C13_LabelStability ==
    \A x \in BagToSet(rows) : \A y \in BagToSet(rows) :
        (x.model = y.model) <=> (x.label = y.label)

\* C14: the votes table holds at most one row per (session, voter).
\* (Violated: every INSERT INTO votes is unconditional and the table has no
\* unique key: a user who submits twice has two rows, and so has the
\* responder that mystery_judge_id names, which collectVotes appends to the
\* voting models a second time.)
C14_OneVotePerVoter ==
    \A x \in BagToSet(voteRows) :
        /\ CopiesIn(x, voteRows) = 1
        /\ \A y \in BagToSet(voteRows) : x.voter = y.voter => x = y

\* C15: every vote row ranks labels of the session's response rows, none
\* twice, and has the weight of a user (0.5), a model (1.0) or the mystery
\* judge (1.5).  (Violated: SubmitUserVote stores the request's ranking as it
\* came.)
SessionLabels == {x.label : x \in BagToSet(rows)}
DuplicateFree(r) == \A i \in DOMAIN r : \A j \in DOMAIN r : r[i] = r[j] => i = j
LegalBallot(v) ==
    /\ DuplicateFree(v.ranked)
    /\ SeqRange(v.ranked) \subseteq SessionLabels
    /\ v.weight \in {"0.5", "1.0", "1.5"}
C15_BallotLegality == \A v \in BagToSet(voteRows) : LegalBallot(v)
\* The part of C15 the voting stage is responsible for: it holds.
C15_ModelBallots ==
    \A v \in BagToSet(voteRows) : v.type = "model" => LegalBallot(v)

\* C16: with the mystery judge enabled and three models requested, the model
\* mystery_judge_id names is not among the responders, every requested model
\* responds or judges, and the judge's vote rows all have weight 1.5: never
\* more than one, and exactly one once every voter's vote was received.
\* (Violated: mystery_judge_id reads the slice after the removal shifted it.)
JudgeRows == {v \in BagToSet(voteRows) : v.type = "model" /\ v.voter = mysteryID}
C16_MysteryJudge ==
    mysteryID # NoModel =>
        /\ mysteryID \notin SeqRange(models)
        /\ SeqRange(reqModels) = SeqRange(models) \cup {mysteryID}
        /\ \A v \in JudgeRows : v.weight = "1.5" /\ CopiesIn(v, voteRows) = 1
        /\ Cardinality(JudgeRows) <= 1
        /\ (pc \notin {"start", "bc_started", "collect", "set_voting",
                        "bc_voting", "votes", "fail", "bc_failed"}
             /\ Count(EventVoteReceived) = Len(cur))
            => Cardinality(JudgeRows) = 1

\* C17: after a completed standard session of m1, m2, m3 with no store fault
\* in which all three voters returned the ballot [A, B, C], the rating read
\* for the model that owns label A is above the one read for the owner of B,
\* and that above the one read for the owner of C.  (Violated: the rankings
\* handed to UpdateRatings list labels, not model ids; the models' ratings
\* are never written.)
BallotABC == <<"Response A", "Response B", "Response C">>
LabelOwners(l) == {x.model : x \in {y \in BagToSet(rows) : y.label = l}}
RatingsOf(m) == {r.rating : r \in getModelRating(modelRatings, m, CategoryID)}
C17_RatingsFollowBallots ==
    (/\ mode = ModeStandard /\ Len(models) = 3 /\ TaskDone
     /\ status = StatusCompleted /\ storeFaults = 0
     /\ {v.voter : v \in BagToSet(votes)} = SeqRange(models)
     /\ \A v \in BagToSet(votes) : v.ranked = BallotABC)
    => \A a \in LabelOwners("Response A"), b \in LabelOwners("Response B"),
          c \in LabelOwners("Response C") :
          \A ra \in RatingsOf(a), rb \in RatingsOf(b), rc \in RatingsOf(c) :
              ra > rb /\ rb > rc

\* What a reader outside the open transaction finds in the tables.
Committed == IF txOwner = NoCaller THEN <<modelRatings, eloHistory>> ELSE txSnap
Returns(s) == epc[s] # "returned" /\ epc'[s] = "returned"

SerialRows(first, second) ==
    SeqRange(ApplyUpdate(ApplyUpdate(<<<<>>, <<>>>>, first), second)[1])
C19_Serializable ==
    (/\ updates = 2 /\ storeFaults = 0
     /\ \A s \in Callers : epc[s] = "returned" /\ ~eErr[s] /\ eIn[s].cat = "c1")
    => SeqRange(modelRatings) \in {SerialRows(eIn["s1"], eIn["s2"]),
                                   SerialRows(eIn["s2"], eIn["s1"])}

\* C20: the committed model_ratings has one row per (model, category), the
\* nil category included; the rating read back for a model is the new rating
\* of its latest history row; and no row's wins, losses or draws decrease.
\* (Violated: with a nil category the upsert never conflicts and inserts a
\* row per update.)
UniqueRows(tbl) ==
    \A i \in DOMAIN tbl : \A j \in DOMAIN tbl :
        (tbl[i].model = tbl[j].model /\ tbl[i].cat = tbl[j].cat) => i = j
HistoryOf(hist, m, cat) == {i \in DOMAIN hist : hist[i].model = m /\ hist[i].cat = cat}
ReadBackLatest(tables) ==
    \A m \in RegisteredModels : \A cat \in Categories :
        LET h == HistoryOf(tables[2], m, cat)
        IN  h # {} =>
              \A r \in getModelRating(tables[1], m, cat) :
                  r.rating = tables[2][CHOOSE i \in h : \A j \in h : j <= i].new
CountersGrow(old, new) ==
    \A i \in DOMAIN old :
        /\ i \in DOMAIN new
        /\ new[i].wins >= old[i].wins
        /\ new[i].losses >= old[i].losses
        /\ new[i].draws >= old[i].draws
C20_OneRowPerScope ==
    [][/\ UniqueRows(Committed[1]')
       /\ ReadBackLatest(Committed')
       /\ CountersGrow(Committed[1], Committed[1]')]_vars


\* C21: while the stored status is completed, failed or cancelled, no step
\* writes a response row, a vote row or the synthesis of the session, and no
\* step changes model_ratings or elo_history.
\* (Violated: SubmitUserVote inserts whatever the status is.)
C21_TerminalFrozen ==
    [][(status \in TerminalStatuses) =>
         (rows' = rows /\ voteRows' = voteRows /\ synthesis' = synthesis
          /\ modelRatings' = modelRatings /\ eloHistory' = eloHistory)]_vars

\* C22: in tournament mode every entry of the bracket, and every winner of
\* the running round, is one of the session's participating model ids.
\* (Violated: determineWinner returns a label, which joins winners as it is.)
C22_BracketOfModels ==
    mode = ModeTournament =>
        /\ SeqRange(remaining) \subseteq SeqRange(models)
        /\ SeqRange(winners) \subseteq SeqRange(models)


\* C23: a tournament of N participants whose task has ended without a store
\* fault (and, under TourSpec, without a failed provider call of a model) has run
\* N - 1 matches and published exactly one tournament.champion event.
\* (Violated for N = 3: the second round pairs the label that won the first
\* match with the bye, that match is skipped, and the bracket ends empty.)
Matches == Count(EventModelResponding) \div 2
C23_BracketShape ==
    (mode = ModeTournament /\ TaskDone /\ storeFaults = 0) =>
        /\ Matches = Len(models) - 1
        /\ Count(EventTournamentChampion) = 1


\* C24: a session whose stored status is completed has its synthesis written.
\* (Violated: executeTournamentMode goes from the champion event straight to
\* completeSession.)
C24_CompletedHasSynthesis == status = StatusCompleted => synthesis

\* C26: a debate session that published council.completed has published
\* voting.started and synthesis.started and has had its rating update called.
\* (Violated: executeDebateMode does none of the three.)
C26_DebatePipeline ==
    (mode = ModeDebate /\ Published(EventCouncilCompleted) # {}) =>
        /\ Published(EventVotingStarted) # {}
        /\ Published(EventSynthesisStarted) # {}
        /\ ratingUpdates >= 1


\* C25: in a debate session each (model, round) has at most one response row;
\* a round past the first has rows or running streams only when every model
\* has its row of the round before; and once collectVotes was entered (which
\* a debate does only when no stream and no insert of any round failed) there
\* is exactly one row per model and round 1..R, the vote is taken over the
\* rows of round R, each voter has at most one vote row, and every ballot
\* ranks the labels of round R.
RowOf(m, r) == {x \in BagToSet(rows) : x.model = m /\ x.round = r}
RoundComplete(r) ==
    \A i \in DOMAIN models :
        \E x \in RowOf(models[i], r) : RowOf(models[i], r) = {x} /\ CopiesIn(x, rows) = 1
VotesEntered == vpc # <<>>
FinalRows == {x \in BagToSet(rows) : x.round = rounds}
TrimSpace(q) == IF q = " " THEN "" ELSE q
ValidRequest(r) ==
    /\ TrimSpace(r.question) # ""
    /\ Len(r.models) >= 2 /\ Len(r.models) <= 8
    /\ DuplicateFree(r.models)
    /\ r.mode \in Modes
    /\ r.rounds \in 0..10
C27_Admission ==
    /\ ~ValidRequest(req) =>
          (admission # "accepted" /\ status = NoRow /\ pc = NoTask)
    /\ (admission = "accepted" /\ pc = "start") => status = StatusPending

\* C28: the chairperson of an accepted request is its override when it has
\* one; otherwise a participating model of the highest global rating, and the
\* same model for every order in which the participating models are listed.
\* (Violated: StartSession takes participatingModels[0].)
GlobalRating(m) ==
    CHOOSE x \in {r.rating : r \in getModelRating(modelRatings, m, NoCat)} : TRUE
TopRated(ms) ==
    {m \in SeqRange(ms) : \A k \in SeqRange(ms) : GlobalRating(k) <= GlobalRating(m)}
C28_Chairperson ==
    admission = "accepted" =>
        IF req.chair # NoModel
        THEN ChairpersonID = req.chair
        ELSE /\ ChairpersonID \in TopRated(models)
             /\ \A p \in Orderings(SeqRange(models)) :
                    SelectChairperson(req, p) = ChairpersonID

\* C29: the responses table holds at most one row per (model, round) of the
\* session.
\* (Violated: the table has no unique constraint, and a request naming a
\* model twice runs two producers for it.)
C29_ResponseUnique ==
    \A x \in BagToSet(rows) :
        /\ CopiesIn(x, rows) = 1
        /\ \A y \in BagToSet(rows) :
              (x.model = y.model /\ x.round = y.round) => x = y


\* C30: a session one of whose store writes failed never gets the status
\* completed and never publishes council.completed.
\* (Violated: the errors of the status updates, of the vote inserts and of
\* the rating update are dropped.)
C30_StoreFaultFails ==
    storeFaults > 0 =>
        /\ status # StatusCompleted
        /\ Published(EventCouncilCompleted) = {}


\* C31: a participant whose stream ends with an error after it delivered
\* chunks still has one response row for that round, holding the chunks
\* received before the error.
PartialStream(i) ==
    /\ pc = "collect" /\ ppc[i] = "failed" /\ content[i] > 0
    /\ cur[i] \in RegisteredModels /\ storeFaults = 0
C31_PartialContentSaved ==
    \A i \in DOMAIN ppc :
        PartialStream(i) =>
            \E x \in BagToSet(rows) :
                x.model = cur[i] /\ x.round = round /\ x.content = content[i]


\* C38: an announcement follows the durable write it announces: model.complete
\* follows the response row, voting.received the vote row, council.completed
\* the completed status.
C38_DurableBeforeAnnounced ==
    /\ \A e \in Published(EventModelComplete) :
           \E x \in BagToSet(rows) : x.label = e[2]
    /\ Count(EventModelComplete) <= BagCardinality(rows)
    /\ Count(EventVoteReceived) <= BagCardinality(voteRows)
    /\ Published(EventCouncilCompleted) # {} => status = StatusCompleted


\* C39: a tournament that publishes council.completed has published exactly
\* one tournament.champion before it, naming a participating model, also
\* when a stage of some match failed.
C39_TournamentChampion ==
    (mode = ModeTournament /\ Published(EventCouncilCompleted) # {}) =>
        /\ Count(EventTournamentChampion) = 1
        /\ \A e \in Published(EventTournamentChampion) : e[2] \in SeqRange(models)


\* C37: in every step of the hub, each client's Send channel has been closed
\* at most once, nothing is sent on a Send channel that is closed, and a
\* client is in the clients table exactly when it is in its session's table.
SentOn(c) == Len(sendQ'[c]) > Len(sendQ[c])
TablesAgree == \A c \in Clients : (c \in hClients) <=> (c \in hSessions[SessionID(c)])
C37_ChannelSafety ==
    [][(\A c \in Clients : sendClosed'[c] <= 1 /\ (SentOn(c) => sendClosed[c] = 0)) /\ TablesAgree']_vars

\* The hub has returned after closing one client's Send in its unregister
\* case and the other's in its shutdown case, and the second client's own
\* unregister request is pending.
C37_Witness ==
    /\ hubPc = "stopped"
    /\ \E c, d \in Clients :
          /\ cpc[c] = "returned" /\ sendClosed[c] = 1
          /\ cpc[d] = "unregistering" /\ sendClosed[d] = 1


\* C32: after an UpdateRatings call that returned no error for a ranking with
\* a determined winner between m1 and m2, the matchups table has the row of
\* the pair (m1, m2) in the call's category, with the winner's counter set.
OneBallot == {rk \in EloRankings : DOMAIN rk = {"v1"}}
C32_MatchupCounters ==
    \A s \in Callers :
        (epc[s] = "returned" /\ ~eErr[s] /\ eIn[s] # NoInput
             /\ eIn[s].rankings \in OneBallot) =>
            \E i \in DOMAIN matchups :
                /\ matchups[i].a = "m1" /\ matchups[i].b = "m2"
                /\ matchups[i].cat = eIn[s].cat
                /\ matchups[i].aWins + matchups[i].bWins >= 1

\* C33: after one UpdateRatings call in category c1 on empty tables, the
\* rows of m1 and m2 record the pair consistently: a win and a loss, a loss
\* and a win, or a draw each.
Tally(m) ==
    LET i == CHOOSE j \in DOMAIN modelRatings : modelRatings[j].model = m
    IN  <<modelRatings[i].wins, modelRatings[i].losses, modelRatings[i].draws>>
C33_PairConsistent ==
    \A s \in Callers :
        (updates = 1 /\ epc[s] = "returned" /\ ~eErr[s] /\ eIn[s] # NoInput
             /\ eIn[s].cat = "c1") =>
            <<Tally("m1"), Tally("m2")>> \in
                {<<<<1, 0, 0>>, <<0, 1, 0>>>>,
                 <<<<0, 1, 0>>, <<1, 0, 0>>>>,
                 <<<<0, 0, 1>>, <<0, 0, 1>>>>}


\* C34: for an answer that lists every label once, RequestVote returns the
\* labels in the order the answer lists them.
ListsAll(answer, labels) ==
    Len(answer) = Len(labels) /\ SeqRange(answer) = SeqRange(labels)
C34_RankingFollowsAnswer ==
    ListsAll(lastVote.answer, lastVote.labels) =>
        lastVote.ranking = lastVote.answer

\* C35: while getOrCreateClient of one user waits for its client to start,
\* a getOrCreateClient of another user that waits for the pool lock can
\* take it.
C35_LockFreeWhileStarting ==
    \A u \in Users : \A w \in Users \ {u} :
        (gpc[u] = "starting" /\ gpc[w] = "lock") => clientsMu = NoHolder

\* C36: a step that removes a user's client from the pool is taken only
\* when no request of that user is running on the client.
C36_EvictOnlyIdle ==
    [][\A u \in Users :
         (u \in poolClients /\ u \notin poolClients') => inflight[u] = 0]_vars


\* C40: a HandleConnection whose read has failed eventually returns.
C40_HandlerReturns ==
    \A c \in Clients : (cpc[c] = "unregistering") ~> (cpc[c] = "returned")

=============================================================================
